---- MODULE Spec2Model ----
(***************************************************************************)
(* A model of the Candy virtual machine: the reference-counted heap, the   *)
(* builtin functions a fiber runs, and the scheduler with its channels,    *)
(* parallel nurseries and try scopes.                                      *)
(***************************************************************************)
EXTENDS Integers, Sequences, FiniteSets, TLC

VARIABLES
    heap,          \* the fiber's heap: Heap { objects, empty_addresses, channel_refcounts }
    data_stack,    \* the fiber's data stack: addresses into heap
    other,         \* the heap objects are cloned into
    address_map,   \* source address -> address in other
    clone_roots,   \* the clone calls made so far: <<source, target>>
    clone_impl,    \* which implementation of the deep clone is in use
    last,          \* the heap operation executed last
    fiber,         \* the rest of the fiber: status, call_stack, the builtin run last
    vm,            \* the scheduler: its fibers and channels
    compiler       \* the compiler: the source being parsed, the MIR being optimized

heapVars == <<heap, data_stack, other, address_map, clone_roots, clone_impl, last>>

\* the virtual machine
machine == <<heap, data_stack, other, address_map, clone_roots, clone_impl, last, fiber, vm>>

vars == <<heap, data_stack, other, address_map, clone_roots, clone_impl, last, fiber, vm,
          compiler>>

\* ------------------------------------------------------------------ bounds

MaxObjects == 3
MaxStack == 3
MaxClones == 2

\* ------------------------------------------------------------- sequences

RECURSIVE SeqCount(_, _)
SeqCount(s, x) ==
    IF s = <<>> THEN 0
    ELSE (IF Head(s) = x THEN 1 ELSE 0) + SeqCount(Tail(s), x)

SeqRange(s) == {s[i] : i \in 1..Len(s)}

Front(s) == SubSeq(s, 1, Len(s) - 1)

Last(s) == s[Len(s)]

RemoveAt(s, i) == SubSeq(s, 1, i - 1) \o SubSeq(s, i + 1, Len(s))

InsertAt(s, i, x) == SubSeq(s, 1, i - 1) \o <<x>> \o SubSeq(s, i, Len(s))

\* ------------------------------------------------------------------- heap

\* Object { reference_count, data }. The data is a kind with its payload: an
\* integer (Int value, Closure num_args, port channel), a text (Text value, Tag or
\* Symbol name) and the addresses the object holds (List items, Struct keys and
\* values alternating, Closure captured values, a Tag's value).
Object(reference_count, data) ==
    [reference_count |-> reference_count, kind |-> data.kind, num |-> data.num,
     text |-> data.text, children |-> data.children, body |-> data.body]

\* body: the instructions of a Closure.
Data(kind, num, text, children, body) ==
    [kind |-> kind, num |-> num, text |-> text, children |-> children, body |-> body]

DataOf(object) ==
    [kind |-> object.kind, num |-> object.num, text |-> object.text,
     children |-> object.children, body |-> object.body]

\* Option::None in Vec<Option<Object>>
None == [reference_count |-> 0, kind |-> "None", num |-> 0, text |-> <<>>,
         children |-> <<>>, body |-> <<>>]

EmptyMap == [x \in {} |-> 0]

\* Heap::default. Rust's objects[0] is always None and is left out: the TLA+ index
\* of an object is its address. aborted: a Rust panic ended the process.
HeapDefault == [objects |-> <<>>, empty_addresses |-> <<>>,
                channel_refcounts |-> EmptyMap, aborted |-> FALSE]

IsSome(h, address) ==
    /\ address \in 1..Len(h.objects)
    /\ h.objects[address].kind # "None"

Addresses(h) == {a \in 1..Len(h.objects) : IsSome(h, a)}

get(h, address) == h.objects[address]

Abort(h) == [h EXCEPT !.aborted = TRUE]

\* Data::channel: the channel of a send or receive port.
IsPort(object) == object.kind \in {"SendPort", "ReceivePort"}

\* channel_refcounts without the entries in channels
Without(refcounts, channels) ==
    [c \in DOMAIN refcounts \ channels |-> refcounts[c]]

\* The channel refcount after a port of the channel gained amount references
\* (lost them, when amount is negative); an entry that reaches 0 is removed. A
\* missing entry is the panic of or_insert_with.
channel_refcount_add(h, channel, amount) ==
    IF channel \notin DOMAIN h.channel_refcounts THEN Abort(h)
    ELSE IF h.channel_refcounts[channel] + amount = 0
         THEN [h EXCEPT !.channel_refcounts = Without(@, {channel})]
         ELSE [h EXCEPT !.channel_refcounts[channel] = @ + amount]

dup_by(h, address, amount) ==
    IF ~IsSome(h, address) THEN Abort(h)
    ELSE LET h1 == [h EXCEPT !.objects[address].reference_count = @ + amount]
         IN IF IsPort(get(h, address))
            THEN channel_refcount_add(h1, get(h, address).num, amount)
            ELSE h1

dup(h, address) == dup_by(h, address, 1)

\* Object::children
children(object) == object.children

RECURSIVE drop(_, _)
RECURSIVE drop_all(_, _)

\* Heap::free: the slot becomes None, the address reusable, the children dropped.
free(h, address) ==
    LET object == h.objects[address]
        taken == [h EXCEPT !.objects[address] = None,
                           !.empty_addresses = Append(@, address)]
    IN drop_all(taken, children(object))

drop_all(h, addresses) ==
    IF addresses = <<>> \/ h.aborted THEN h
    ELSE drop_all(drop(h, Head(addresses)), Tail(addresses))

\* The channel part of Heap::drop.
drop_channel(h, object) ==
    IF IsPort(object) THEN channel_refcount_add(h, object.num, -1) ELSE h

drop_decrement_twice(h, address) ==
    IF ~IsSome(h, address) THEN Abort(h)
    ELSE LET new_reference_count == h.objects[address].reference_count - 2
             h1 == drop_channel(
                       [h EXCEPT !.objects[address].reference_count = new_reference_count],
                       get(h, address))
         IN IF h1.aborted THEN h1
            ELSE IF new_reference_count <= 0 THEN free(h1, address) ELSE h1

drop(h, address) ==
    IF ~IsSome(h, address) THEN Abort(h)
    ELSE LET new_reference_count == h.objects[address].reference_count - 1
             h1 == drop_channel(
                       [h EXCEPT !.objects[address].reference_count = new_reference_count],
                       get(h, address))
         IN IF h1.aborted THEN h1
            ELSE IF new_reference_count = 0 THEN free(h1, address) ELSE h1

\* Heap::reserve_address: a freed address if there is one, else a new slot.
reserve_address(h) ==
    IF h.empty_addresses # <<>>
    THEN [heap |-> [h EXCEPT !.empty_addresses = Front(@)],
          address |-> Last(h.empty_addresses)]
    ELSE [heap |-> [h EXCEPT !.objects = Append(@, None)],
          address |-> Len(h.objects) + 1]

\* Heap::create. A port is created by create_send_port or create_receive_port,
\* which count one more reference for the channel before they create the object.
create(h, data) ==
    LET counted == IF ~IsPort(data) THEN h
                   ELSE IF data.num \in DOMAIN h.channel_refcounts
                        THEN [h EXCEPT !.channel_refcounts[data.num] = @ + 1]
                        ELSE [h EXCEPT !.channel_refcounts = (data.num :> 1) @@ @]
        r == reserve_address(counted)
    IN [heap |-> [r.heap EXCEPT !.objects[r.address] = Object(1, data)],
        address |-> r.address]

\* ------------------------------------------------------------ deep clone

Bump(counts, address) ==
    IF address \in DOMAIN counts
    THEN [counts EXCEPT ![address] = @ + 1]
    ELSE (address :> 1) @@ counts

\* Heap::map_data: the data with every address it holds looked up in the mapping.
map_data(map, data) ==
    Data(data.kind, data.num, data.text,
         [i \in 1..Len(data.children) |-> map[data.children[i]]], data.body)

RECURSIVE prepare_object_cloning(_, _, _)
RECURSIVE prepare_all(_, _, _)

prepare_all(self, st, addresses) ==
    IF addresses = <<>> THEN st
    ELSE prepare_all(self, prepare_object_cloning(self, st, Head(addresses)),
                     Tail(addresses))

prepare_object_cloning_uncounted(self, st, address) ==
    LET is_new == address \notin DOMAIN st.address_map
    IN IF ~is_new THEN st
       ELSE LET counted == [st EXCEPT !.additional_refcounts = Bump(@, address)]
                r == reserve_address(counted.other)
                mapped == [counted EXCEPT
                              !.address_map = (address :> r.address) @@ @,
                              !.other = r.heap]
            IN prepare_all(self, mapped, children(get(self, address)))

\* Heap::prepare_object_cloning: one more reference to count for the address; a
\* new address gets its place in the other heap and its children are visited.
prepare_object_cloning(self, st, address) ==
    LET counted == [st EXCEPT !.additional_refcounts = Bump(@, address)]
        is_new == address \notin DOMAIN st.address_map
    IN IF ~is_new THEN counted
       ELSE LET r == reserve_address(counted.other)
                mapped == [counted EXCEPT
                              !.address_map = (address :> r.address) @@ @,
                              !.other = r.heap]
            IN prepare_all(self, mapped, children(get(self, address)))

RECURSIVE reserve_missing(_, _)
\* for object in additional_refcounts.keys() { address_map.entry(object).or_insert_with(reserve_address) }
reserve_missing(st, keys) ==
    IF keys = {} THEN st
    ELSE LET k == CHOOSE x \in keys : TRUE
             r == reserve_address(st.other)
             next == IF k \in DOMAIN st.address_map THEN st
                     ELSE [st EXCEPT !.address_map = (k :> r.address) @@ @,
                                     !.other = r.heap]
         IN reserve_missing(next, keys \ {k})

RECURSIVE apply_refcounts(_, _, _)
\* for (address, refcount) in additional_refcounts: add to the object in the other
\* heap, or create it there with that reference count.
apply_refcounts(self, st, keys) ==
    IF keys = {} THEN st
    ELSE LET address == CHOOSE x \in keys : TRUE
             refcount == st.additional_refcounts[address]
             new_address == st.address_map[address]
             object == st.other.objects[new_address]
             next == IF object.kind # "None"
                     THEN [st EXCEPT !.other.objects[new_address].reference_count =
                                        @ + refcount]
                     ELSE [st EXCEPT !.other.objects[new_address] =
                              Object(refcount,
                                     map_data(st.address_map, DataOf(get(self, address))))]
         IN apply_refcounts(self, next, keys \ {address})

\* Heap::clone_multiple_to_other_heap_with_existing_mapping
clone_multiple_to_other_heap_with_existing_mapping(self, other_heap, addresses, map) ==
    LET prepared == prepare_all(self,
                        [address_map |-> map, additional_refcounts |-> EmptyMap,
                         other |-> other_heap],
                        addresses)
        reserved == reserve_missing(prepared, DOMAIN prepared.additional_refcounts)
        applied == apply_refcounts(self, reserved, DOMAIN reserved.additional_refcounts)
    IN [other |-> applied.other, address_map |-> applied.address_map,
        addresses |-> [i \in 1..Len(addresses) |-> applied.address_map[addresses[i]]]]

\* Heap::clone_single_to_other_heap_with_existing_mapping
clone_single_to_other_heap_with_existing_mapping(self, other_heap, address, map) ==
    LET r == clone_multiple_to_other_heap_with_existing_mapping(
                 self, other_heap, <<address>>, map)
    IN [other |-> r.other, address_map |-> r.address_map, address |-> Last(r.addresses)]

\* Heap::clone_single_to_other_heap
clone_single_to_other_heap(self, other_heap, address) ==
    clone_single_to_other_heap_with_existing_mapping(self, other_heap, address, EmptyMap)

\* impl PartialEq for HeapObject: the same pointer, or structurally equal data.
RECURSIVE HeapObjectEq(_, _, _)
HeapObjectEq(h, a, b) ==
    \/ a = b
    \/ /\ IsSome(h, a)
       /\ IsSome(h, b)
       /\ LET x == get(h, a)
              y == get(h, b)
          IN /\ x.kind = y.kind
             /\ x.num = y.num
             /\ x.text = y.text
             /\ x.body = y.body
             /\ Len(x.children) = Len(y.children)
             /\ \A i \in 1..Len(x.children) :
                    HeapObjectEq(h, x.children[i], y.children[i])

\* address_map.entry(self): the keys that hash and compare equal to the object.
Occupied(self, map, object) == {k \in DOMAIN map : HeapObjectEq(self, k, object)}

\* HeapClosure::clone_content_to_heap_with_mapping. Content word 0 is
\* instructions_len, the captured values follow from word 1; the loop writes the
\* clone of captured[index] to content word index. With nothing captured the
\* clone is exact. Otherwise word 0 holds the first clone, captured slot i holds
\* the clone of captured[i+1] and the last captured slot is never written
\* (uninit.word); instructions_len and with it the instructions read back are
\* whatever word 0 makes of them (uninit.body).
HeapClosure_clone_content(source, cloned, uninit) ==
    IF Len(cloned) = 0
    THEN [children |-> <<>>, body |-> source.body]
    ELSE [children |-> Tail(cloned) \o <<uninit.word>>, body |-> uninit.body]

\* clone_content_to_heap_with_mapping of the other kinds: the clone holds the
\* clones of the children.
Other_clone_content(source, cloned) ==
    [children |-> cloned, body |-> source.body]

RECURSIVE clone_to_heap_with_mapping(_, _, _, _)
RECURSIVE clone_slice(_, _, _, _)

\* the calls of clone_to_heap_with_mapping for the children, in order
clone_slice(self, st, addresses, uninit) ==
    IF addresses = <<>> THEN [st EXCEPT !.objects = <<>>]
    ELSE LET first == clone_to_heap_with_mapping(self, st, Head(addresses), uninit)
             rest == clone_slice(self, first, Tail(addresses), uninit)
         IN [rest EXCEPT !.objects = <<first.object>> \o @]

\* HeapObject::clone_to_heap_with_mapping: an object the mapping knows gets one
\* more reference; a new one is allocated with one reference, entered into the
\* mapping, and its content cloned.
clone_to_heap_with_mapping(self, st, object, uninit) ==
    LET occupied == Occupied(self, st.address_map, object)
    IN IF occupied # {}
       THEN LET t == st.address_map[CHOOSE k \in occupied : TRUE]
            IN [st EXCEPT !.other.objects[t].reference_count = @ + 1,
                          !.object = t]
       ELSE LET source == get(self, object)
                new_object == Len(st.other.objects) + 1
                allocated ==
                    [st EXCEPT
                        !.other.objects = Append(@, Object(1,
                            Data(source.kind, source.num, source.text, <<>>, <<>>))),
                        !.address_map = (object :> new_object) @@ @]
                content == clone_slice(self, allocated, source.children, uninit)
                written == IF source.kind = "Closure"
                           THEN HeapClosure_clone_content(source, content.objects, uninit)
                           ELSE Other_clone_content(source, content.objects)
            IN [other |-> [content.other EXCEPT
                              !.objects[new_object].children = written.children,
                              !.objects[new_object].body = written.body],
                address_map |-> content.address_map,
                object |-> new_object,
                objects |-> <<>>]

\* --------------------------------------------- the heap under its operations

\* The heap on its own: no fiber around it, no scheduler.
NoFiber == [status |-> [kind |-> "Running"], call_stack |-> <<>>, responsible |-> 0,
            calls |-> 0, builtin_function |-> "None", args |-> <<>>]

NoVm == [fibers |-> <<>>, channels |-> <<>>]

\* Nothing is being compiled.
NoCompiler == [stage |-> "None"]

\* The values the heap operations are tried on.
HeapLeaves ==
    { Data("Int", 0, <<>>, <<>>, <<>>),
      Data("Int", 1, <<>>, <<>>, <<>>) }

CompositeKinds == {"List", "Closure"}

\* What an uninitialized content word and the instructions behind a wrong
\* instructions_len may read as.
UninitWords == {0, 1}
UninitBodies == {<<>>, <<1, 2>>}

HeapInit ==
    /\ heap = HeapDefault
    /\ data_stack = <<>>
    /\ other = HeapDefault
    /\ address_map = EmptyMap
    /\ clone_roots = <<>>
    /\ clone_impl = "old"
    /\ last = [op |-> "init", address |-> 0]
    /\ fiber = NoFiber
    /\ vm = NoVm
    /\ compiler = NoCompiler

CloneInit ==
    /\ heap = HeapDefault
    /\ data_stack = <<>>
    /\ other = HeapDefault
    /\ address_map = EmptyMap
    /\ clone_roots = <<>>
    /\ clone_impl \in {"old", "new"}
    /\ last = [op |-> "init", address |-> 0]
    /\ fiber = NoFiber
    /\ vm = NoVm
    /\ compiler = NoCompiler

\* Heap::create of a value without children; the stack holds the one reference.
CreateLeaf(data) ==
    /\ ~heap.aborted
    /\ Cardinality(Addresses(heap)) < MaxObjects
    /\ Len(data_stack) < MaxStack
    /\ LET r == create(heap, data)
       IN /\ heap' = r.heap
          /\ data_stack' = Append(data_stack, r.address)
          /\ last' = [op |-> "create", address |-> r.address]
    /\ UNCHANGED <<other, address_map, clone_roots, clone_impl, fiber, vm, compiler>>

\* Heap::create_list, create_struct, create_closure: the top k stack entries move
\* into the new object, which takes their place on the stack.
CreateComposite(kind, k) ==
    /\ ~heap.aborted
    /\ Cardinality(Addresses(heap)) < MaxObjects
    /\ k <= Len(data_stack)
    /\ kind = "Struct" => k % 2 = 0
    /\ LET items == SubSeq(data_stack, Len(data_stack) - k + 1, Len(data_stack))
           r == create(heap, Data(kind, 0, <<>>, items,
                                  IF kind = "Closure" THEN <<1>> ELSE <<>>))
       IN /\ heap' = r.heap
          /\ data_stack' = Append(SubSeq(data_stack, 1, Len(data_stack) - k), r.address)
          /\ last' = [op |-> "create", address |-> r.address]
    /\ UNCHANGED <<other, address_map, clone_roots, clone_impl, fiber, vm, compiler>>

\* Heap::dup for a stack entry that is pushed once more.
Dup(i) ==
    /\ ~heap.aborted
    /\ i \in 1..Len(data_stack)
    /\ Len(data_stack) < MaxStack
    /\ heap' = dup(heap, data_stack[i])
    /\ data_stack' = Append(data_stack, data_stack[i])
    /\ last' = [op |-> "dup", address |-> data_stack[i]]
    /\ UNCHANGED <<other, address_map, clone_roots, clone_impl, fiber, vm, compiler>>

\* Heap::drop for a stack entry that is removed.
Drop(i) ==
    /\ ~heap.aborted
    /\ i \in 1..Len(data_stack)
    /\ heap' = drop(heap, data_stack[i])
    /\ data_stack' = RemoveAt(data_stack, i)
    /\ last' = [op |-> "drop", address |-> data_stack[i]]
    /\ UNCHANGED <<other, address_map, clone_roots, clone_impl, fiber, vm, compiler>>

\* One clone call for a stack entry, reusing the mapping of the calls before.
Clone(i, uninit) ==
    /\ ~heap.aborted
    /\ i \in 1..Len(data_stack)
    /\ Len(clone_roots) < MaxClones
    /\ LET root == data_stack[i]
           r == IF clone_impl = "old"
                THEN clone_single_to_other_heap_with_existing_mapping(
                         heap, other, root, address_map)
                ELSE LET c == clone_to_heap_with_mapping(heap,
                                  [other |-> other, address_map |-> address_map,
                                   object |-> 0, objects |-> <<>>],
                                  root, uninit)
                     IN [other |-> c.other, address_map |-> c.address_map,
                         address |-> c.object]
       IN /\ other' = r.other
          /\ address_map' = r.address_map
          /\ clone_roots' = Append(clone_roots, <<root, r.address>>)
          /\ last' = [op |-> "clone", address |-> root]
    /\ UNCHANGED <<heap, data_stack, clone_impl, fiber, vm, compiler>>

HeapNext ==
    \/ \E data \in HeapLeaves : CreateLeaf(data)
    \/ \E kind \in CompositeKinds, k \in 0..MaxStack : CreateComposite(kind, k)
    \/ \E i \in 1..MaxStack : Dup(i)
    \/ \E i \in 1..MaxStack : Drop(i)

\* The heap under create, dup and drop.
SpecHeap == HeapInit /\ [][HeapNext]_vars

\* A mapping is used over a source heap that frees nothing: objects are created
\* and dup'ed between the clone calls, none is dropped.
CloneNext ==
    \/ \E data \in HeapLeaves : CreateLeaf(data)
    \/ \E kind \in CompositeKinds, k \in 0..MaxStack : CreateComposite(kind, k)
    \/ \E i \in 1..MaxStack : Dup(i)
    \/ \E i \in 1..MaxStack, w \in UninitWords, b \in UninitBodies :
           Clone(i, [word |-> w, body |-> b])

SpecClone == CloneInit /\ [][CloneNext]_vars

\* ------------------------------------------------------- reference counts

\* the cells of the objects in `holders` that hold `address`
RECURSIVE CellRefsUpTo(_, _, _, _)
CellRefsUpTo(h, holders, address, n) ==
    IF n = 0 THEN 0
    ELSE (IF n \in holders /\ IsSome(h, n)
          THEN SeqCount(h.objects[n].children, address) ELSE 0)
         + CellRefsUpTo(h, holders, address, n - 1)

CellRefsFrom(h, holders, address) ==
    CellRefsUpTo(h, holders, address, Len(h.objects))

CellRefs(h, address) == CellRefsFrom(h, Addresses(h), address)

\* C9: drop decrements the object's reference count by exactly one. The object
\* is gone from the heap exactly if that count was one, and then every cell of a
\* freed object has dropped the object it holds once: an object is freed by the
\* drop exactly if these drops take away all its references, an object that
\* stays has lost exactly these references, and nothing else changes.
C9_DropDecrementsAndFreesAtZero ==
    [][last'.op = "drop" =>
         LET a == last'.address
             freed == Addresses(heap) \ Addresses(heap')
             lost(o) == (IF o = a THEN 1 ELSE 0) + CellRefsFrom(heap, freed, o)
         IN /\ ~heap'.aborted
            /\ IsSome(heap, a)
            /\ IsSome(heap', a) <=> get(heap, a).reference_count > 1
            /\ IsSome(heap', a) =>
                   get(heap', a).reference_count = get(heap, a).reference_count - 1
            /\ Addresses(heap') \subseteq Addresses(heap)
            /\ \A o \in Addresses(heap) :
                   /\ o \in freed <=> get(heap, o).reference_count = lost(o)
                   /\ o \notin freed =>
                          /\ get(heap', o).reference_count =
                                 get(heap, o).reference_count - lost(o)
                          /\ DataOf(get(heap', o)) = DataOf(get(heap, o))
    ]_vars

\* A drop has freed an object and, in the same call, a child of it.
C9_Witness ==
    /\ last.op = "drop"
    /\ Len(heap.empty_addresses) >= 2
    /\ heap.empty_addresses[Len(heap.empty_addresses) - 1] = last.address
    /\ Addresses(heap) # {}

\* ------------------------------------------------------------- C10: clone

RECURSIVE Reachable(_, _, _)
\* the objects reachable from `frontier` (n bounds the depth)
Reachable(h, frontier, n) ==
    IF n = 0 THEN frontier
    ELSE Reachable(h,
             frontier \cup UNION {SeqRange(h.objects[a].children) : a \in frontier},
             n - 1)

ClonedSources == Reachable(heap, {clone_roots[i][1] : i \in 1..Len(clone_roots)},
                           Len(heap.objects))

\* the keys of the mapping an object is found under
KeysOf(object) ==
    IF clone_impl = "old"
    THEN {k \in DOMAIN address_map : k = object}
    ELSE Occupied(heap, address_map, object)

TargetOf(object) == address_map[CHOOSE k \in KeysOf(object) : TRUE]

RootCount(target) ==
    Cardinality({i \in 1..Len(clone_roots) : clone_roots[i][2] = target})

RECURSIVE ClonedCellCount(_, _)
\* the cells of the cloned parents whose object was cloned to `target`
ClonedCellCount(parents, target) ==
    IF parents = {} THEN 0
    ELSE LET p == CHOOSE x \in parents : TRUE
             cells == heap.objects[p].children
         IN Cardinality({i \in 1..Len(cells) : TargetOf(cells[i]) = target})
            + ClonedCellCount(parents \ {p}, target)

CloneRefcounts ==
    \A k \in DOMAIN address_map :
        /\ IsSome(other, address_map[k])
        /\ other.objects[address_map[k]].reference_count =
               RootCount(address_map[k])
               + ClonedCellCount(DOMAIN address_map, address_map[k])

CloneCovers ==
    /\ \A s \in ClonedSources : KeysOf(s) # {}
    /\ DOMAIN address_map \subseteq ClonedSources
    /\ \A i \in 1..Len(clone_roots) : clone_roots[i][2] = TargetOf(clone_roots[i][1])
    /\ Addresses(other) = {address_map[k] : k \in DOMAIN address_map}
    /\ \A k1, k2 \in DOMAIN address_map : k1 # k2 => address_map[k1] # address_map[k2]

Int_(value) == Data("Int", value, <<>>, <<>>, <<>>)

Text(value) == Data("Text", 0, value, <<>>, <<>>)

\* Tag { symbol, value }: the value, if there is one, is the one child.
Tag(symbol, value) == Data("Tag", 0, symbol, value, <<>>)

List(items) == Data("List", 0, <<>>, items, <<>>)

\* Struct: keys and values alternate in the children.
Struct(fields) == Data("Struct", 0, <<>>, fields, <<>>)

Closure(num_args, captured, body) == Data("Closure", num_args, <<>>, captured, body)

SendPort(channel) == Data("SendPort", channel, <<>>, <<>>, <<>>)

ReceivePort(channel) == Data("ReceivePort", channel, <<>>, <<>>, <<>>)

HirId(id) == Data("HirId", 0, id, <<>>, <<>>)

create_int(h, int) == create(h, Int_(int))

create_text(h, text) == create(h, Text(text))

create_tag(h, symbol, value) == create(h, Tag(symbol, value))

create_symbol(h, symbol) == create_tag(h, symbol, <<>>)

create_nothing(h) == create_symbol(h, "Nothing")

create_list(h, items) == create(h, List(items))

create_bool(h, value) == create_symbol(h, IF value THEN "True" ELSE "False")

create_struct(h, fields) == create(h, Struct(fields))

\* Heap::create_result: [Type: Ok | Error, Value: value]
create_result(h, is_ok, value) ==
    LET type_key == create_symbol(h, "Type")
        type_ == create_symbol(type_key.heap, IF is_ok THEN "Ok" ELSE "Error")
        value_key == create_symbol(type_.heap, "Value")
    IN create_struct(value_key.heap,
           <<type_key.address, type_.address, value_key.address, value>>)

create_ordering(h, a, b) ==
    create_symbol(h, IF a < b THEN "Less" ELSE IF a = b THEN "Equal" ELSE "Greater")

\* Heap::get_hir_id
get_hir_id(h, address) == get(h, address).text

\* --------------------------------------------------------------- integers

\* the width the bitwise operators are computed at; the values are far below it
BitWidth == 8

\* usize::MAX and u128::MAX of the machine the model runs
UsizeMax == 255

Abs(a) == IF a < 0 THEN 0 - a ELSE a

Pow2(n) == 2 ^ n

\* BigInt / BigInt truncates towards zero
TruncatingDivide(a, b) ==
    LET q == Abs(a) \div Abs(b)
    IN IF (a < 0) = (b < 0) THEN q ELSE 0 - q

\* BigInt % BigInt has the sign of the dividend
Remainder(a, b) == a - b * TruncatingDivide(a, b)

\* Integer::mod_floor has the sign of the divisor
ModFloor(a, b) ==
    LET r == Remainder(a, b)
    IN IF r # 0 /\ ((r < 0) # (b < 0)) THEN r + b ELSE r

\* bit i of the two's complement of a
Bit(a, i) == (a \div Pow2(i)) % 2

RECURSIVE BitwiseUpTo(_, _, _, _)
BitwiseUpTo(a, b, table, i) ==
    IF i < 0 THEN 0
    ELSE table[Bit(a, i)][Bit(b, i)] * Pow2(i) + BitwiseUpTo(a, b, table, i - 1)

\* a bitwise operator of BigInt: on the two's complement, the sign bit extended
Bitwise(a, b, table) ==
    BitwiseUpTo(a, b, table, BitWidth - 1)
    - table[Bit(a, BitWidth)][Bit(b, BitWidth)] * Pow2(BitWidth)

BitAnd == [x \in 0..1 |-> [y \in 0..1 |-> IF x = 1 /\ y = 1 THEN 1 ELSE 0]]

BitOr == [x \in 0..1 |-> [y \in 0..1 |-> IF x = 1 \/ y = 1 THEN 1 ELSE 0]]

BitXor == [x \in 0..1 |-> [y \in 0..1 |-> IF x # y THEN 1 ELSE 0]]

RECURSIVE Bits(_)
\* BigInt::bits: the bits of the magnitude
Bits(a) == IF a = 0 THEN 0 ELSE 1 + Bits(Abs(a) \div 2)

\* ToPrimitive::to_usize, to_u128, to_u8: no value for what does not fit
Fits(value, max) == value >= 0 /\ value <= max

\* ------------------------------------------------------------------ texts

Whitespace == {9, 10, 11, 12, 13, 32}

Digits == 48..57

StartsWith(text, prefix) ==
    /\ Len(prefix) <= Len(text)
    /\ SubSeq(text, 1, Len(prefix)) = prefix

EndsWith(text, suffix) ==
    /\ Len(suffix) <= Len(text)
    /\ SubSeq(text, Len(text) - Len(suffix) + 1, Len(text)) = suffix

Contains(text, pattern) ==
    \E i \in 0..Len(text) : StartsWith(SubSeq(text, i + 1, Len(text)), pattern)

RECURSIVE TrimStart(_)
TrimStart(text) ==
    IF text # <<>> /\ Head(text) \in Whitespace THEN TrimStart(Tail(text)) ELSE text

RECURSIVE TrimEnd(_)
TrimEnd(text) ==
    IF text # <<>> /\ Last(text) \in Whitespace THEN TrimEnd(Front(text)) ELSE text

RECURSIVE DigitsValue(_)
DigitsValue(digits) ==
    IF digits = <<>> THEN 0 ELSE DigitsValue(Front(digits)) * 10 + (Last(digits) - 48)

\* BigInt::from_str: an optional sign and at least one digit
IntFromStr(text) ==
    LET signed == text # <<>> /\ Head(text) \in {43, 45}
        digits == IF signed THEN Tail(text) ELSE text
    IN IF digits = <<>> \/ \E i \in 1..Len(digits) : digits[i] \notin Digits
       THEN [ok |-> FALSE, value |-> 0]
       ELSE [ok |-> TRUE,
             value |-> IF signed /\ Head(text) = 45
                       THEN 0 - DigitsValue(digits) ELSE DigitsValue(digits)]

\* the text of the ParseBigIntError
ParseError(text) == IF text = <<>> THEN <<101>> ELSE <<105>>

\* .skip(start).take(count) over the graphemes
SkipTake(text, start, count) ==
    SubSeq(text, start + 1, IF start + count < Len(text) THEN start + count ELSE Len(text))

\* ------------------------------------------------------ builtin functions

NoPacket == [heap |-> HeapDefault, address |-> 0]

\* A BuiltinResult with the heap it leaves. early: the function returned from
\* inside the body of the unpack macro, so that what follows the body did not run.
Behavior(h, kind) ==
    [heap |-> h, kind |-> kind, value |-> 0, responsible |-> 0, capacity |-> 0,
     channel |-> 0, packet |-> NoPacket, reason |-> <<>>, early |-> FALSE]

Return(h, value) == [Behavior(h, "Return") EXCEPT !.value = value]

\* Return(self.create_...(..))
ReturnCreated(created) == Return(created.heap, created.address)

DivergeControlFlow(h, closure, responsible) ==
    [Behavior(h, "DivergeControlFlow") EXCEPT !.value = closure,
                                              !.responsible = responsible]

CreateChannel(h, capacity) == [Behavior(h, "CreateChannel") EXCEPT !.capacity = capacity]

Send(h, channel, packet) ==
    [Behavior(h, "Send") EXCEPT !.channel = channel, !.packet = packet]

Receive(h, channel) == [Behavior(h, "Receive") EXCEPT !.channel = channel]

Parallel(h, body) == [Behavior(h, "Parallel") EXCEPT !.value = body]

Try(h, body) == [Behavior(h, "Try") EXCEPT !.value = body]

\* the body evaluates to Err(reason)
Err(h, reason) == [Behavior(h, "Err") EXCEPT !.reason = reason]

\* return Err(reason), and the ? operator
ReturnErr(h, reason) == [Behavior(h, "Err") EXCEPT !.reason = reason, !.early = TRUE]

\* unwrap, expect, unreachable!, an index out of range: the process panics
RustPanic(h) == [Behavior(Abort(h), "Abort") EXCEPT !.early = TRUE]

\* (&data).try_into() for the type an argument is unpacked as
try_into(data, type) ==
    CASE type = "Any" -> TRUE
      [] type = "bool" -> data.kind = "Tag" /\ data.text \in {"True", "False"}
                          /\ data.children = <<>>
      [] OTHER -> data.kind = type

RECURSIVE unpack_arguments(_, _, _, _)
\* the arguments are looked up and converted in order
unpack_arguments(h, args, types, i) ==
    IF i > Len(args) THEN [kind |-> "Ok", reason |-> <<>>]
    ELSE IF ~IsSome(h, args[i]) THEN [kind |-> "Abort", reason |-> <<>>]
    ELSE IF ~try_into(DataOf(get(h, args[i])), types[i])
         THEN [kind |-> "Err", reason |-> <<"Expected a", types[i]>>]
    ELSE unpack_arguments(h, args, types, i + 1)

unpacked(h, args, types) ==
    IF Len(args) # Len(types)
    THEN [kind |-> "Err",
          reason |-> <<"A builtin function was called with the wrong number of arguments.">>]
    ELSE unpack_arguments(h, args, types, 1)

\* macro unpack!
unpack(h, args, types, body) ==
    LET u == unpacked(h, args, types)
    IN IF u.kind = "Abort" THEN RustPanic(h)
       ELSE IF u.kind = "Err" THEN ReturnErr(h, u.reason)
       ELSE body

\* macro unpack_and_later_drop!: after the body every argument is dropped
unpack_and_later_drop(h, args, types, body) ==
    LET u == unpacked(h, args, types)
    IN IF u.kind = "Abort" THEN RustPanic(h)
       ELSE IF u.kind = "Err" THEN ReturnErr(h, u.reason)
       ELSE IF body.early THEN body
       ELSE [body EXCEPT !.heap = drop_all(@, args)]

\* Data::equals
equals(h, a, b) == HeapObjectEq(h, a, b)

\* Pointer::format: the text a value is shown as
format(h, address) ==
    LET data == get(h, address)
    IN IF data.kind = "Int" /\ data.num \in 0..9 THEN <<48 + data.num>>
       ELSE IF data.kind = "Text" THEN <<34>> \o data.text \o <<34>>
       ELSE <<63>>

\* Struct::get: the index of the first key equal to `key`, 0 for none
StructKeyIndex(h, fields, key) ==
    LET hits == {i \in 1..(Len(fields) \div 2) : equals(h, fields[2 * i - 1], key)}
    IN IF hits = {} THEN 0 ELSE CHOOSE i \in hits : \A j \in hits : i <= j

\* Struct::iter().map(|(key, _)| key)
StructKeys(fields) == [i \in 1..(Len(fields) \div 2) |-> fields[2 * i - 1]]

CapacityError ==
    <<"You tried to create a channel with a capacity that is either negative or bigger than the maximum usize.">>

channel_create_unchecked(h, args) ==
    unpack_and_later_drop(h, args, <<"Int">>,
        CreateChannel(h, get(h, args[1]).num % (UsizeMax + 1)))

channel_create(h, args) ==
    unpack_and_later_drop(h, args, <<"Int">>,
        LET capacity == get(h, args[1]).num
        IN IF Fits(capacity, UsizeMax) THEN CreateChannel(h, capacity)
           ELSE ReturnErr(h, CapacityError))

\* Packet { heap, address } of a Send: the heap the packet was cloned into
SendCloned(h, channel, cloned) ==
    Send(h, channel, [heap |-> cloned.other, address |-> cloned.address])

\* channel_send, had it sent its first argument, the port, as the packet
channel_send_port_as_packet(h, args) ==
    unpack_and_later_drop(h, args, <<"SendPort", "Any">>,
        SendCloned(h, get(h, args[1]).num,
                   clone_single_to_other_heap(h, HeapDefault, args[1])))

channel_send(h, args) ==
    unpack_and_later_drop(h, args, <<"SendPort", "Any">>,
        SendCloned(h, get(h, args[1]).num,
                   clone_single_to_other_heap(h, HeapDefault, args[2])))

channel_receive(h, args) ==
    unpack_and_later_drop(h, args, <<"ReceivePort">>, Receive(h, get(h, args[1]).num))

builtin_equals(h, args) ==
    unpack_and_later_drop(h, args, <<"Any", "Any">>,
        ReturnCreated(create_bool(h, equals(h, args[1], args[2]))))

\* Closure::should_take_no_arguments
should_take_no_arguments(closure) ==
    IF closure.num = 0 THEN <<>>
    ELSE <<"A builtin function expected a function without arguments, but got one that takes",
           ToString(closure.num), "arguments.">>

function_run(h, args, responsible) ==
    unpack(h, args, <<"Closure">>,
        LET error == should_take_no_arguments(get(h, args[1]))
        IN IF error # <<>> THEN ReturnErr(h, error)
           ELSE DivergeControlFlow(h, args[1], responsible))

get_argument_count(h, args) ==
    unpack_and_later_drop(h, args, <<"Closure">>,
        ReturnCreated(create_int(h, get(h, args[1]).num)))

if_else(h, args, responsible) ==
    unpack(h, args, <<"bool", "Closure", "Closure">>,
        LET condition == get(h, args[1]).text = "True"
            run == IF condition THEN args[2] ELSE args[3]
            dont_run == IF condition THEN args[3] ELSE args[2]
            dropped == drop_all(h, <<args[1], dont_run>>)
        IN DivergeControlFlow(dropped, run, responsible))

U128Max == UsizeMax * UsizeMax + 2 * UsizeMax

U8Max == UsizeMax

\* the builtins on two Ints that return a value computed from both
IntIntTypes == <<"Int", "Int">>

int_add(h, args) ==
    unpack_and_later_drop(h, args, IntIntTypes,
        ReturnCreated(create_int(h, get(h, args[1]).num + get(h, args[2]).num)))

int_bit_length(h, args) ==
    unpack_and_later_drop(h, args, <<"Int">>,
        ReturnCreated(create_int(h, Bits(get(h, args[1]).num))))

int_bitwise_and(h, args) ==
    unpack_and_later_drop(h, args, IntIntTypes,
        ReturnCreated(create_int(h,
            Bitwise(get(h, args[1]).num, get(h, args[2]).num, BitAnd))))

int_bitwise_or(h, args) ==
    unpack_and_later_drop(h, args, IntIntTypes,
        ReturnCreated(create_int(h,
            Bitwise(get(h, args[1]).num, get(h, args[2]).num, BitOr))))

int_bitwise_xor(h, args) ==
    unpack_and_later_drop(h, args, IntIntTypes,
        ReturnCreated(create_int(h,
            Bitwise(get(h, args[1]).num, get(h, args[2]).num, BitXor))))

int_compare_to(h, args) ==
    unpack_and_later_drop(h, args, IntIntTypes,
        ReturnCreated(create_ordering(h, get(h, args[1]).num, get(h, args[2]).num)))

DivideByZero == <<"Can't divide by zero.">>

int_divide_truncating_to_zero(h, args) ==
    unpack_and_later_drop(h, args, IntIntTypes,
        IF get(h, args[2]).num = 0 THEN ReturnCreated(create_int(h, 0))
        ELSE ReturnCreated(create_int(h,
                 TruncatingDivide(get(h, args[1]).num, get(h, args[2]).num))))

int_divide_truncating(h, args) ==
    unpack_and_later_drop(h, args, IntIntTypes,
        IF get(h, args[2]).num = 0 THEN ReturnErr(h, DivideByZero)
        ELSE ReturnCreated(create_int(h,
                 TruncatingDivide(get(h, args[1]).num, get(h, args[2]).num))))

int_modulo(h, args) ==
    unpack_and_later_drop(h, args, IntIntTypes,
        IF get(h, args[2]).num = 0 THEN ReturnErr(h, DivideByZero)
        ELSE ReturnCreated(create_int(h,
                 ModFloor(get(h, args[1]).num, get(h, args[2]).num))))

int_multiply(h, args) ==
    unpack_and_later_drop(h, args, IntIntTypes,
        ReturnCreated(create_int(h, get(h, args[1]).num * get(h, args[2]).num)))

int_parse(h, args) ==
    unpack_and_later_drop(h, args, <<"Text">>,
        LET text == get(h, args[1]).text
            parsed == IntFromStr(text)
            value == IF parsed.ok THEN create_int(h, parsed.value)
                     ELSE create_text(h, ParseError(text))
        IN ReturnCreated(create_result(value.heap, parsed.ok, value.address)))

int_remainder(h, args) ==
    unpack_and_later_drop(h, args, IntIntTypes,
        IF get(h, args[2]).num = 0 THEN ReturnErr(h, DivideByZero)
        ELSE ReturnCreated(create_int(h,
                 Remainder(get(h, args[1]).num, get(h, args[2]).num))))

int_shift_left(h, args) ==
    unpack_and_later_drop(h, args, IntIntTypes,
        LET amount == get(h, args[2]).num
        IN IF ~Fits(amount, U128Max) THEN RustPanic(h)
           ELSE ReturnCreated(create_int(h, get(h, args[1]).num * Pow2(amount))))

int_shift_right(h, args) ==
    unpack_and_later_drop(h, args, IntIntTypes,
        LET amount == get(h, args[2]).num
        IN IF ~Fits(amount, U128Max) THEN RustPanic(h)
           ELSE ReturnCreated(create_int(h, get(h, args[1]).num \div Pow2(amount))))

int_subtract(h, args) ==
    unpack_and_later_drop(h, args, IntIntTypes,
        ReturnCreated(create_int(h, get(h, args[1]).num - get(h, args[2]).num)))

list_filled(h, args) ==
    unpack_and_later_drop(h, args, <<"Int", "Any">>,
        LET length == get(h, args[1]).num
            item_address == args[2]
        IN IF ~Fits(length, UsizeMax) THEN RustPanic(h)
           ELSE ReturnCreated(create_list(dup_by(h, item_address, length),
                                          [i \in 1..length |-> item_address])))

list_get(h, args) ==
    unpack_and_later_drop(h, args, <<"List", "Int">>,
        LET items == get(h, args[1]).children
            index == get(h, args[2]).num
        IN IF ~Fits(index, UsizeMax) \/ index >= Len(items) THEN RustPanic(h)
           ELSE Return(dup(h, items[index + 1]), items[index + 1]))

list_insert(h, args) ==
    unpack_and_later_drop(h, args, <<"List", "Int", "Any">>,
        LET new_list == get(h, args[1]).children
            index == get(h, args[2]).num
            item_address == args[3]
        IN IF ~Fits(index, UsizeMax) \/ index > Len(new_list) THEN RustPanic(h)
           ELSE ReturnCreated(create_list(dup(h, item_address),
                                          InsertAt(new_list, index + 1, item_address))))

list_length(h, args) ==
    unpack_and_later_drop(h, args, <<"List">>,
        ReturnCreated(create_int(h, Len(get(h, args[1]).children))))

list_remove_at(h, args) ==
    unpack_and_later_drop(h, args, <<"List", "Int">>,
        LET new_list == get(h, args[1]).children
            index == get(h, args[2]).num
        IN IF ~Fits(index, UsizeMax) \/ index >= Len(new_list) THEN RustPanic(h)
           ELSE ReturnCreated(create_list(h, RemoveAt(new_list, index + 1))))

list_replace(h, args) ==
    unpack_and_later_drop(h, args, <<"List", "Int", "Any">>,
        LET new_list == get(h, args[1]).children
            index == get(h, args[2]).num
            new_item_address == args[3]
        IN IF ~Fits(index, UsizeMax) \/ index >= Len(new_list) THEN RustPanic(h)
           ELSE ReturnCreated(create_list(dup(h, new_item_address),
                    [new_list EXCEPT ![index + 1] = new_item_address])))

parallel(h, args) ==
    unpack(h, args, <<"Closure">>,
        IF get(h, args[1]).num # 1
        THEN ReturnErr(h, <<"parallel expects a closure taking a nursery.">>)
        ELSE Parallel(h, args[1]))

print(h, args) ==
    unpack_and_later_drop(h, args, <<"Any">>, ReturnCreated(create_nothing(h)))

struct_get(h, args) ==
    unpack_and_later_drop(h, args, <<"Struct", "Any">>,
        LET fields == get(h, args[1]).children
            index == StructKeyIndex(h, fields, args[2])
        IN IF index = 0
           THEN Err(h, <<"The struct does not contain the key", format(h, args[2])>>)
           ELSE Return(dup(h, fields[2 * index]), fields[2 * index]))

struct_get_keys(h, args) ==
    unpack_and_later_drop(h, args, <<"Struct">>,
        ReturnCreated(create_list(h, StructKeys(get(h, args[1]).children))))

struct_has_key(h, args) ==
    unpack_and_later_drop(h, args, <<"Struct", "Any">>,
        ReturnCreated(create_bool(h,
            StructKeyIndex(h, get(h, args[1]).children, args[2]) # 0)))

tag_get_symbol(h, args) ==
    unpack_and_later_drop(h, args, <<"Tag">>,
        ReturnCreated(create_tag(h, get(h, args[1]).text, <<>>)))

tag_has_value(h, args) ==
    unpack_and_later_drop(h, args, <<"Tag">>,
        ReturnCreated(create_bool(h, get(h, args[1]).children # <<>>)))

tag_get_value(h, args) ==
    unpack_and_later_drop(h, args, <<"Tag">>,
        LET tag_value == get(h, args[1]).children
        IN IF tag_value = <<>> THEN Err(h, <<"The tag doesn't have a value.">>)
           ELSE Return(dup(h, tag_value[1]), tag_value[1]))

RECURSIVE create_texts(_, _)
\* graphemes.map(|it| self.create_text(it.to_string())).collect_vec()
create_texts(h, graphemes) ==
    IF graphemes = <<>> THEN [heap |-> h, addresses |-> <<>>]
    ELSE LET first == create_text(h, <<Head(graphemes)>>)
             rest == create_texts(first.heap, Tail(graphemes))
         IN [heap |-> rest.heap, addresses |-> <<first.address>> \o rest.addresses]

text_characters(h, args) ==
    unpack_and_later_drop(h, args, <<"Text">>,
        LET character_addresses == create_texts(h, get(h, args[1]).text)
        IN ReturnCreated(create_list(character_addresses.heap,
                                     character_addresses.addresses)))

text_concatenate(h, args) ==
    unpack_and_later_drop(h, args, <<"Text", "Text">>,
        ReturnCreated(create_text(h, get(h, args[1]).text \o get(h, args[2]).text)))

text_contains(h, args) ==
    unpack_and_later_drop(h, args, <<"Text", "Text">>,
        ReturnCreated(create_bool(h, Contains(get(h, args[1]).text, get(h, args[2]).text))))

text_ends_with(h, args) ==
    unpack_and_later_drop(h, args, <<"Text", "Text">>,
        ReturnCreated(create_bool(h, EndsWith(get(h, args[1]).text, get(h, args[2]).text))))

RECURSIVE Bytes(_, _)
\* the items as bytes: the first item that is no Int or no byte ends it
Bytes(h, items) ==
    IF items = <<>> THEN [kind |-> "Ok", bytes |-> <<>>, reason |-> <<>>]
    ELSE IF ~IsSome(h, Head(items)) THEN [kind |-> "Abort", bytes |-> <<>>, reason |-> <<>>]
    ELSE LET int == get(h, Head(items))
             rest == Bytes(h, Tail(items))
         IN IF int.kind # "Int"
            THEN [kind |-> "Err", bytes |-> <<>>, reason |-> <<"Expected a", "Int">>]
            ELSE IF ~Fits(int.num, U8Max)
            THEN [kind |-> "Err", bytes |-> <<>>,
                  reason |-> <<"Number is not a byte:", ToString(int.num)>>]
            ELSE IF rest.kind # "Ok" THEN rest
            ELSE [rest EXCEPT !.bytes = <<int.num>> \o @]

\* "Invalid UTF-8."
InvalidUtf8 == <<73, 110, 118, 97, 108, 105, 100, 32, 85, 84, 70, 45, 56, 46>>

\* String::from_utf8 for bytes that stand alone: a byte above 127 is no character
IsUtf8(bytes) == \A i \in 1..Len(bytes) : bytes[i] <= 127

text_from_utf8(h, args) ==
    unpack_and_later_drop(h, args, <<"List">>,
        LET bytes == Bytes(h, get(h, args[1]).children)
            text == IF IsUtf8(bytes.bytes) THEN create_text(h, bytes.bytes)
                    ELSE create_text(h, InvalidUtf8)
        IN IF bytes.kind = "Abort" THEN RustPanic(h)
           ELSE IF bytes.kind = "Err" THEN ReturnErr(h, bytes.reason)
           ELSE ReturnCreated(create_result(text.heap, IsUtf8(bytes.bytes), text.address)))

\* end_exclusive - start_inclusive on usize: with overflow checks a smaller end
\* panics, without them the difference wraps around to a count beyond any text.
text_get_range(h, args, overflow_checks) ==
    unpack_and_later_drop(h, args, <<"Text", "Int", "Int">>,
        LET text == get(h, args[1]).text
            start_inclusive == get(h, args[2]).num
            end_exclusive == get(h, args[3]).num
        IN IF ~Fits(start_inclusive, UsizeMax) \/ ~Fits(end_exclusive, UsizeMax)
           THEN RustPanic(h)
           ELSE IF end_exclusive < start_inclusive
           THEN IF overflow_checks THEN RustPanic(h)
                ELSE ReturnCreated(create_text(h,
                         SkipTake(text, start_inclusive,
                                  UsizeMax + 1 + end_exclusive - start_inclusive)))
           ELSE ReturnCreated(create_text(h,
                    SkipTake(text, start_inclusive, end_exclusive - start_inclusive))))

text_is_empty(h, args) ==
    unpack_and_later_drop(h, args, <<"Text">>,
        ReturnCreated(create_bool(h, get(h, args[1]).text = <<>>)))

text_length(h, args) ==
    unpack_and_later_drop(h, args, <<"Text">>,
        ReturnCreated(create_int(h, Len(get(h, args[1]).text))))

text_starts_with(h, args) ==
    unpack_and_later_drop(h, args, <<"Text", "Text">>,
        ReturnCreated(create_bool(h, StartsWith(get(h, args[1]).text, get(h, args[2]).text))))

text_trim_end(h, args) ==
    unpack_and_later_drop(h, args, <<"Text">>,
        ReturnCreated(create_text(h, TrimEnd(get(h, args[1]).text))))

text_trim_start(h, args) ==
    unpack_and_later_drop(h, args, <<"Text">>,
        ReturnCreated(create_text(h, TrimStart(get(h, args[1]).text))))

to_debug_text(h, args) ==
    unpack_and_later_drop(h, args, <<"Any">>,
        ReturnCreated(create_text(h, format(h, args[1]))))
\* try, had it opened a parallel scope for the closure
try_as_parallel(h, args) ==
    unpack(h, args, <<"Closure">>, Parallel(h, args[1]))

try_(h, args) ==
    unpack(h, args, <<"Closure">>, Try(h, args[1]))

type_of(h, args) ==
    unpack_and_later_drop(h, args, <<"Any">>,
        LET kind == get(h, args[1]).kind
        IN IF kind = "HirId" THEN RustPanic(h)
           ELSE ReturnCreated(create_tag(h,
                    CASE kind = "Tag" -> "Symbol"
                      [] kind = "Closure" -> "Function"
                      [] OTHER -> kind,
                    <<>>)))

\* ------------------------------------------------------------------ fiber

\* fiber::Status
Status(kind) ==
    [kind |-> kind, capacity |-> 0, channel |-> 0, packet |-> NoPacket, body |-> 0,
     reason |-> <<>>, responsible |-> <<>>]

\* Fiber::call: a call frame for the closure is entered, the arguments are pushed
call(self, closure, args, responsible) ==
    [self EXCEPT !.call_stack = Append(@, [closure |-> closure,
                                           responsible |-> responsible]),
                 !.data_stack = @ \o args]

\* Fiber::panic
panic(self, reason, responsible) ==
    [self EXCEPT !.status = [Status("Panicked") EXCEPT !.reason = reason,
                                                        !.responsible = responsible]]

BuiltinFunctions ==
    { "ChannelCreate", "ChannelSend", "ChannelReceive", "Equals", "FunctionRun",
      "GetArgumentCount", "IfElse", "IntAdd", "IntBitLength", "IntBitwiseAnd",
      "IntBitwiseOr", "IntBitwiseXor", "IntCompareTo", "IntDivideTruncating",
      "IntModulo", "IntMultiply", "IntParse", "IntRemainder", "IntShiftLeft",
      "IntShiftRight", "IntSubtract", "ListFilled", "ListGet", "ListInsert",
      "ListLength", "ListRemoveAt", "ListReplace", "Parallel", "Print", "StructGet",
      "StructGetKeys", "StructHasKey", "TagGetSymbol", "TagHasValue", "TagGetValue",
      "TextCharacters", "TextConcatenate", "TextContains", "TextEndsWith",
      "TextFromUtf8", "TextGetRange", "TextIsEmpty", "TextLength", "TextStartsWith",
      "TextTrimEnd", "TextTrimStart", "ToDebugText", "Try", "TypeOf" }

\* the match on the builtin function in Fiber::run_builtin_function
builtin_result(h, builtin_function, args, responsible, overflow_checks) ==
    CASE builtin_function = "ChannelCreate" -> channel_create(h, args)
      [] builtin_function = "ChannelSend" -> channel_send(h, args)
      [] builtin_function = "ChannelReceive" -> channel_receive(h, args)
      [] builtin_function = "Equals" -> builtin_equals(h, args)
      [] builtin_function = "FunctionRun" -> function_run(h, args, responsible)
      [] builtin_function = "GetArgumentCount" -> get_argument_count(h, args)
      [] builtin_function = "IfElse" -> if_else(h, args, responsible)
      [] builtin_function = "IntAdd" -> int_add(h, args)
      [] builtin_function = "IntBitLength" -> int_bit_length(h, args)
      [] builtin_function = "IntBitwiseAnd" -> int_bitwise_and(h, args)
      [] builtin_function = "IntBitwiseOr" -> int_bitwise_or(h, args)
      [] builtin_function = "IntBitwiseXor" -> int_bitwise_xor(h, args)
      [] builtin_function = "IntCompareTo" -> int_compare_to(h, args)
      [] builtin_function = "IntDivideTruncating" -> int_divide_truncating(h, args)
      [] builtin_function = "IntModulo" -> int_modulo(h, args)
      [] builtin_function = "IntMultiply" -> int_multiply(h, args)
      [] builtin_function = "IntParse" -> int_parse(h, args)
      [] builtin_function = "IntRemainder" -> int_remainder(h, args)
      [] builtin_function = "IntShiftLeft" -> int_shift_left(h, args)
      [] builtin_function = "IntShiftRight" -> int_shift_right(h, args)
      [] builtin_function = "IntSubtract" -> int_subtract(h, args)
      [] builtin_function = "ListFilled" -> list_filled(h, args)
      [] builtin_function = "ListGet" -> list_get(h, args)
      [] builtin_function = "ListInsert" -> list_insert(h, args)
      [] builtin_function = "ListLength" -> list_length(h, args)
      [] builtin_function = "ListRemoveAt" -> list_remove_at(h, args)
      [] builtin_function = "ListReplace" -> list_replace(h, args)
      [] builtin_function = "Parallel" -> parallel(h, args)
      [] builtin_function = "Print" -> print(h, args)
      [] builtin_function = "StructGet" -> struct_get(h, args)
      [] builtin_function = "StructGetKeys" -> struct_get_keys(h, args)
      [] builtin_function = "StructHasKey" -> struct_has_key(h, args)
      [] builtin_function = "TagGetSymbol" -> tag_get_symbol(h, args)
      [] builtin_function = "TagHasValue" -> tag_has_value(h, args)
      [] builtin_function = "TagGetValue" -> tag_get_value(h, args)
      [] builtin_function = "TextCharacters" -> text_characters(h, args)
      [] builtin_function = "TextConcatenate" -> text_concatenate(h, args)
      [] builtin_function = "TextContains" -> text_contains(h, args)
      [] builtin_function = "TextEndsWith" -> text_ends_with(h, args)
      [] builtin_function = "TextFromUtf8" -> text_from_utf8(h, args)
      [] builtin_function = "TextGetRange" -> text_get_range(h, args, overflow_checks)
      [] builtin_function = "TextIsEmpty" -> text_is_empty(h, args)
      [] builtin_function = "TextLength" -> text_length(h, args)
      [] builtin_function = "TextStartsWith" -> text_starts_with(h, args)
      [] builtin_function = "TextTrimEnd" -> text_trim_end(h, args)
      [] builtin_function = "TextTrimStart" -> text_trim_start(h, args)
      [] builtin_function = "ToDebugText" -> to_debug_text(h, args)
      [] builtin_function = "Try" -> try_(h, args)
      [] builtin_function = "TypeOf" -> type_of(h, args)

match_result_try_as_parallel(self, result, responsible) ==
    LET left == [self EXCEPT !.heap = result.heap]
    IN CASE result.heap.aborted -> left
         [] result.kind = "Return" ->
                [left EXCEPT !.data_stack = Append(@, result.value)]
         [] result.kind = "DivergeControlFlow" ->
                call(left, result.value, <<>>, result.responsible)
         [] result.kind = "CreateChannel" ->
                [left EXCEPT !.status = [Status("CreatingChannel") EXCEPT
                                            !.capacity = result.capacity]]
         [] result.kind = "Send" ->
                [left EXCEPT !.status = [Status("Sending") EXCEPT
                                            !.channel = result.channel,
                                            !.packet = result.packet]]
         [] result.kind = "Receive" ->
                [left EXCEPT !.status = [Status("Receiving") EXCEPT
                                            !.channel = result.channel]]
         [] result.kind = "Parallel" ->
                [left EXCEPT !.status = [Status("InParallelScope") EXCEPT
                                            !.body = result.value]]
         [] result.kind = "Try" ->
                [left EXCEPT !.status = [Status("InParallelScope") EXCEPT
                                            !.body = result.value]]
         [] result.kind = "Err" ->
                panic(left, result.reason, get_hir_id(left.heap, responsible))

\* The match on the builtin's result in Fiber::run_builtin_function. A Rust
\* panic in the builtin ends the process (heap.aborted) with the fiber as it was.
match_result(self, result, responsible) ==
    LET left == [self EXCEPT !.heap = result.heap]
    IN CASE result.heap.aborted -> left
         [] result.kind = "Return" ->
                [left EXCEPT !.data_stack = Append(@, result.value)]
         [] result.kind = "DivergeControlFlow" ->
                call(left, result.value, <<>>, result.responsible)
         [] result.kind = "CreateChannel" ->
                [left EXCEPT !.status = [Status("CreatingChannel") EXCEPT
                                            !.capacity = result.capacity]]
         [] result.kind = "Send" ->
                [left EXCEPT !.status = [Status("Sending") EXCEPT
                                            !.channel = result.channel,
                                            !.packet = result.packet]]
         [] result.kind = "Receive" ->
                [left EXCEPT !.status = [Status("Receiving") EXCEPT
                                            !.channel = result.channel]]
         [] result.kind = "Parallel" ->
                [left EXCEPT !.status = [Status("InParallelScope") EXCEPT
                                            !.body = result.value]]
         [] result.kind = "Try" ->
                [left EXCEPT !.status = [Status("InTry") EXCEPT
                                            !.body = result.value]]
         [] result.kind = "Err" ->
                panic(left, result.reason, get_hir_id(left.heap, responsible))

\* Fiber::run_builtin_function
run_builtin_function(self, builtin_function, args, responsible, overflow_checks) ==
    match_result(self,
                 builtin_result(self.heap, builtin_function, args, responsible,
                                overflow_checks),
                 responsible)

\* ------------------------------------------- a fiber running builtin calls

MaxFiberObjects == 4
MaxCalls == 1

\* The values a fiber creates to call builtins with.
FiberLeaves ==
    { Int_(0), Int_(1), Int_(0 - 1),
      Text(<<49>>),
      Tag("True", <<>>),
      Closure(0, <<>>, <<1>>), Closure(1, <<>>, <<1>>),
      SendPort(1), ReceivePort(1) }

FiberComposites == {<<"List", 0>>, <<"List", 1>>, <<"List", 2>>, <<"Struct", 2>>, <<"Tag", 1>>}

\* Heap address 1 holds the HirId the fiber's calls name as responsible; the
\* fiber keeps the one reference to it.
FiberInit ==
    /\ heap = create(HeapDefault, HirId("main")).heap
    /\ data_stack = <<>>
    /\ other = HeapDefault
    /\ address_map = EmptyMap
    /\ clone_roots = <<>>
    /\ clone_impl = "old"
    /\ last = [op |-> "init", address |-> 0]
    /\ fiber = [status |-> Status("Running"), call_stack |-> <<>>, responsible |-> 1,
                calls |-> 0, builtin_function |-> "None", args |-> <<>>]
    /\ vm = NoVm
    /\ compiler = NoCompiler

FiberRuns ==
    /\ ~heap.aborted
    /\ fiber.status.kind = "Running"
    /\ fiber.calls < MaxCalls

\* an instruction that creates a value and pushes it
CreateValue(data) ==
    /\ FiberRuns
    /\ Cardinality(Addresses(heap)) < MaxFiberObjects
    /\ Len(data_stack) < MaxStack
    /\ LET r == create(heap, data)
       IN /\ heap' = r.heap
          /\ data_stack' = Append(data_stack, r.address)
          /\ last' = [op |-> "create", address |-> r.address]
    /\ UNCHANGED <<other, address_map, clone_roots, clone_impl, fiber, vm, compiler>>

\* CreateList, CreateStruct, CreateTag: the top k stack entries move into the
\* new object
CreateOf(kind, k) ==
    /\ FiberRuns
    /\ Cardinality(Addresses(heap)) < MaxFiberObjects
    /\ k <= Len(data_stack)
    /\ LET items == SubSeq(data_stack, Len(data_stack) - k + 1, Len(data_stack))
           r == create(heap, IF kind = "Tag" THEN Tag("Some", items)
                             ELSE Data(kind, 0, <<>>, items, <<>>))
       IN /\ heap' = r.heap
          /\ data_stack' = Append(SubSeq(data_stack, 1, Len(data_stack) - k), r.address)
          /\ last' = [op |-> "create", address |-> r.address]
    /\ UNCHANGED <<other, address_map, clone_roots, clone_impl, fiber, vm, compiler>>

\* PushFromStack with its Dup
PushFromStack(i) ==
    /\ FiberRuns
    /\ i \in 1..Len(data_stack)
    /\ Len(data_stack) < MaxStack
    /\ heap' = dup(heap, data_stack[i])
    /\ data_stack' = Append(data_stack, data_stack[i])
    /\ last' = [op |-> "dup", address |-> data_stack[i]]
    /\ UNCHANGED <<other, address_map, clone_roots, clone_impl, fiber, vm, compiler>>

\* the fiber after the call
Called(after, builtin_function, args) ==
    /\ heap' = after.heap
    /\ data_stack' = after.data_stack
    /\ fiber' = [fiber EXCEPT !.status = after.status,
                              !.call_stack = after.call_stack,
                              !.calls = @ + 1,
                              !.builtin_function = builtin_function,
                              !.args = args]
    /\ last' = [op |-> "builtin", address |-> 0]
    /\ UNCHANGED <<other, address_map, clone_roots, clone_impl, vm, compiler>>

\* Call of a builtin function: the top num_args stack entries are the arguments
\* (the calls tried take the whole stack, be it too short or too long a list)
CallBuiltin(builtin_function, num_args, overflow_checks) ==
    /\ FiberRuns
    /\ num_args <= Len(data_stack)
    /\ Called(run_builtin_function(
                  [heap |-> heap,
                   data_stack |-> SubSeq(data_stack, 1, Len(data_stack) - num_args),
                   call_stack |-> fiber.call_stack,
                   status |-> fiber.status],
                  builtin_function,
                  SubSeq(data_stack, Len(data_stack) - num_args + 1, Len(data_stack)),
                  fiber.responsible, overflow_checks),
              builtin_function,
              SubSeq(data_stack, Len(data_stack) - num_args + 1, Len(data_stack)))

FiberNext ==
    \/ \E data \in FiberLeaves : CreateValue(data)
    \/ \E c \in FiberComposites : CreateOf(c[1], c[2])
    \/ \E i \in 1..MaxStack : PushFromStack(i)
    \/ \E builtin_function \in BuiltinFunctions, overflow_checks \in BOOLEAN :
           CallBuiltin(builtin_function, Len(data_stack), overflow_checks)

\* A fiber that builds values and calls builtin functions with them.
SpecBuiltins == FiberInit /\ [][FiberNext]_vars

\* ------------------------------------------------- C7, C8: builtin calls

\* the references to an object: data stack slots, cells of lists, structs, tags
\* and closures, the closures of the call frames, the fiber's responsible HirId
References(address) ==
    SeqCount(data_stack, address)
    + CellRefs(heap, address)
    + Cardinality({i \in 1..Len(fiber.call_stack) :
                       fiber.call_stack[i].closure = address})
    + (IF fiber.responsible = address THEN 1 ELSE 0)

Referenced ==
    SeqRange(data_stack)
    \cup UNION {SeqRange(get(heap, a).children) : a \in Addresses(heap)}

ReferenceCountsMatch ==
    /\ \A a \in Referenced : IsSome(heap, a)
    /\ \A a \in Addresses(heap) : get(heap, a).reference_count = References(a)

BuiltinReturned ==
    /\ fiber.calls > 0
    /\ ~heap.aborted
    /\ fiber.status.kind = "Running"
    /\ fiber.call_stack = <<>>

\* C8: after a builtin function has returned a value, the reference count of
\* every object of the fiber's heap is the number of data stack slots, list and
\* struct cells and captured slots that hold it, and no slot holds a freed object.
C8_ReferenceCountsAfterBuiltin ==
    BuiltinReturned => ReferenceCountsMatch

\* The builtins that put items of an argument into a new list without a dup.
CopiesItems ==
    fiber.builtin_function \in {"StructGetKeys", "ListInsert", "ListRemoveAt", "ListReplace"}

\* What holds of the reference counts: they match before the call, and after the
\* call of every builtin function that copies no items.
ReferenceCountsOfOtherBuiltins ==
    /\ fiber.calls = 0 => ReferenceCountsMatch
    /\ (BuiltinReturned /\ ~CopiesItems) => ReferenceCountsMatch

Suspended ==
    [ChannelCreate |-> "CreatingChannel", ChannelSend |-> "Sending",
     ChannelReceive |-> "Receiving", Parallel |-> "InParallelScope", Try |-> "InTry"]

\* C7: a builtin call leaves the fiber Running, or in the status of its builtin
\* function (channelCreate CreatingChannel, channelSend Sending, channelReceive
\* Receiving, parallel InParallelScope, try InTry), or Panicked. A call of one of
\* these five never leaves it Running; a fiber left Running has entered one call
\* frame and pushed nothing (ifElse, functionRun) or has pushed exactly one
\* result; a fiber not left Running has pushed nothing.
C7_BuiltinStatus ==
    [][(fiber'.calls = fiber.calls + 1 /\ ~heap'.aborted) =>
         LET builtin_function == fiber'.builtin_function
             kind == fiber'.status.kind
             rest == SubSeq(data_stack, 1, Len(data_stack) - Len(fiber'.args))
         IN /\ fiber.status.kind = "Running"
            /\ \/ kind \in {"Running", "Panicked"}
               \/ /\ builtin_function \in DOMAIN Suspended
                  /\ kind = Suspended[builtin_function]
            /\ builtin_function \in DOMAIN Suspended => kind # "Running"
            /\ kind # "Running" =>
                   /\ data_stack' = rest
                   /\ fiber'.call_stack = fiber.call_stack
            /\ (kind = "Running" /\ builtin_function \in {"IfElse", "FunctionRun"}) =>
                   /\ data_stack' = rest
                   /\ Len(fiber'.call_stack) = Len(fiber.call_stack) + 1
            /\ (kind = "Running" /\ builtin_function \notin {"IfElse", "FunctionRun"}) =>
                   /\ Len(data_stack') = Len(rest) + 1
                   /\ SubSeq(data_stack', 1, Len(rest)) = rest
                   /\ fiber'.call_stack = fiber.call_stack
    ]_vars

\* channelSend has left the fiber Sending, with a packet.
C7_Witness ==
    /\ fiber.calls = 1
    /\ fiber.builtin_function = "ChannelSend"
    /\ fiber.status.kind = "Sending"
    /\ fiber.status.packet.address # 0

\* -------------------------------------------------------------- scheduler
\* The VM's fibers and channels. A fiber of the scheduler is its status, its
\* place in the tree of scopes and what it has seen so far; its heap is built for
\* each builtin call from the call's arguments.

MaxFibers == 4
MaxChannels == 2
MaxSteps == 6

\* who performs a channel operation: a fiber, or the host with an operation id
FiberPerformer(f) == [kind |-> "Fiber", id |-> f]

ExternalPerformer(operation) == [kind |-> "External", id |-> operation]

\* what a fiber gets pushed when it resumes: an Int, Nothing, or the Ok / Error
\* result of a try
Value(tag, value, reason) == [tag |-> tag, value |-> value, reason |-> reason]

Nothing == Value("Nothing", 0, <<>>)

NewFiber(parent, role) ==
    [status |-> Status("Running"), parent |-> parent, role |-> role, ops |-> 0,
     scope |-> 0, value |-> Nothing, sent |-> <<>>, received |-> <<>>, tries |-> <<>>]

Channel(capacity) ==
    [capacity |-> capacity, buffered |-> <<>>, pending_sends |-> <<>>,
     pending_receives |-> <<>>]

\* the Int a packet carries
PacketValue(packet) == get(packet.heap, packet.address).num

Terminal(status) == status.kind \in {"Done", "Panicked", "Cancelled"}
\* a channel that always has room
is_full_never(channel) == Len(channel.buffered) < 0

is_full(channel) == Len(channel.buffered) >= channel.capacity

\* a completed send resumes the sending fiber
complete_send(v, performer) ==
    IF performer.kind = "Fiber"
    THEN [v EXCEPT !.fibers[performer.id].status = Status("Running"),
                   !.fibers[performer.id].value = Nothing]
    ELSE v

\* a completed receive resumes the receiving fiber with the packet, or is kept
\* for the host in completed_operations
complete_receive(v, performer, packet) ==
    IF performer.kind = "Fiber"
    THEN [v EXCEPT !.fibers[performer.id].status = Status("Running"),
                   !.fibers[performer.id].value = Value("Int", PacketValue(packet), <<>>),
                   !.fibers[performer.id].received = Append(@, PacketValue(packet))]
    ELSE [v EXCEPT !.completed_operations = Append(@, packet)]

RECURSIVE work_on_pending_operations(_, _)
\* A pending send whose packet has room in the buffer is buffered and completes;
\* with a receive pending as well it is handed over. A pending receive gets the
\* oldest buffered packet.
work_on_pending_operations(v, c) ==
    LET channel == v.channels[c]
    IN IF channel.buffered # <<>> /\ channel.pending_receives # <<>>
       THEN work_on_pending_operations(
                complete_receive(
                    [v EXCEPT !.channels[c].buffered = Tail(@),
                              !.channels[c].pending_receives = Tail(@)],
                    Head(channel.pending_receives), Head(channel.buffered)),
                c)
       ELSE IF channel.pending_sends # <<>> /\ channel.pending_receives # <<>>
       THEN work_on_pending_operations(
                complete_receive(
                    complete_send(
                        [v EXCEPT !.channels[c].pending_sends = Tail(@),
                                  !.channels[c].pending_receives = Tail(@)],
                        Head(channel.pending_sends)[1]),
                    Head(channel.pending_receives), Head(channel.pending_sends)[2]),
                c)
       ELSE IF channel.pending_sends # <<>> /\ ~is_full(channel)
       THEN work_on_pending_operations(
                complete_send(
                    [v EXCEPT !.channels[c].pending_sends = Tail(@),
                              !.channels[c].buffered =
                                  Append(@, Head(channel.pending_sends)[2])],
                    Head(channel.pending_sends)[1]),
                c)
       ELSE v

send(v, c, performer, packet) ==
    work_on_pending_operations(
        [v EXCEPT !.channels[c].pending_sends = Append(@, <<performer, packet>>)], c)

receive(v, c, performer) ==
    work_on_pending_operations(
        [v EXCEPT !.channels[c].pending_receives = Append(@, performer)], c)

create_channel(v, capacity) == [v EXCEPT !.channels = Append(@, Channel(capacity))]

RECURSIVE Ancestors(_, _)
Ancestors(v, f) ==
    IF v.fibers[f].parent = 0 THEN {}
    ELSE {v.fibers[f].parent} \cup Ancestors(v, v.fibers[f].parent)

Descendants(v, p) == {f \in 1..Len(v.fibers) : p \in Ancestors(v, f)}

ChildrenOf(v, p) == {f \in 1..Len(v.fibers) : v.fibers[f].parent = p}

\* the pending operations of the fibers are taken out of every channel
withdraw(v, fibers) ==
    LET keeps_send(entry) == ~(entry[1].kind = "Fiber" /\ entry[1].id \in fibers)
        keeps_receive(performer) == ~(performer.kind = "Fiber" /\ performer.id \in fibers)
    IN [v EXCEPT !.channels =
           [c \in 1..Len(v.channels) |->
               [v.channels[c] EXCEPT
                   !.pending_sends = SelectSeq(@, keeps_send),
                   !.pending_receives = SelectSeq(@, keeps_receive)]]]
\* cancel, had it left the pending operations in the channels
cancel_without_withdraw(v, fibers) ==
    LET alive == {f \in fibers : ~Terminal(v.fibers[f].status)}
    IN [v EXCEPT !.fibers =
           [f \in 1..Len(v.fibers) |->
               IF f \in alive
               THEN [v.fibers[f] EXCEPT !.status = Status("Cancelled")]
               ELSE v.fibers[f]]]

\* every fiber of the set that has not settled becomes Cancelled
cancel(v, fibers) ==
    LET alive == {f \in fibers : ~Terminal(v.fibers[f].status)}
        withdrawn == withdraw(v, alive)
    IN [withdrawn EXCEPT !.fibers =
           [f \in 1..Len(v.fibers) |->
               IF f \in alive
               THEN [v.fibers[f] EXCEPT !.status = Status("Cancelled")]
               ELSE v.fibers[f]]]

\* the children a fiber spawned in the scope it is in now
ScopeChildren(v, p) == {f \in ChildrenOf(v, p) : v.fibers[f].scope = v.fibers[p].ops}
\* a parallel scope, were it over as soon as one child is Done
children_settled_some(v, p) == \E f \in ScopeChildren(v, p) : v.fibers[f].status.kind = "Done"

\* a parallel scope is over when the body and every spawned fiber are Done
children_settled(v, p) == \A f \in ScopeChildren(v, p) : v.fibers[f].status.kind = "Done"

BodyOf(v, p) == CHOOSE f \in ScopeChildren(v, p) : v.fibers[f].role = "body"

\* the result a try hands to the fiber that called it
try_result(child) ==
    IF child.status.kind = "Done" THEN Value("Ok", child.value.value, <<>>)
    ELSE Value("Error", 0, child.status.reason)

RECURSIVE settle(_, _)
\* A fiber became Done or Panicked. The body of a try resumes its parent with
\* the result. A Done child of a parallel scope resumes the parent once all
\* children are Done; a Panicked one cancels the rest of the scope and the
\* parent panics in turn.
settle(v, f) ==
    LET child == v.fibers[f]
        p == child.parent
    IN IF p = 0 THEN v
       ELSE IF child.role = "try"
       THEN [v EXCEPT !.fibers[p].status = Status("Running"),
                      !.fibers[p].value = try_result(child),
                      !.fibers[p].tries = Append(@, try_result(child))]
       ELSE IF child.status.kind = "Panicked"
       THEN settle([cancel(v, Descendants(v, p)) EXCEPT
                       !.fibers[p].status = child.status], p)
       ELSE IF children_settled(v, p)
       THEN [v EXCEPT !.fibers[p].status = Status("Running"),
                      !.fibers[p].value = v.fibers[BodyOf(v, p)].value]
       ELSE v

spawn(v, parent, role) ==
    [v EXCEPT !.fibers = Append(@, [NewFiber(parent, role) EXCEPT
                                       !.scope = v.fibers[parent].ops])]

\* what the VM does with a fiber that stopped running
handle(v, f) ==
    LET status == v.fibers[f].status
    IN CASE status.kind = "CreatingChannel" ->
                [create_channel(v, status.capacity) EXCEPT
                    !.fibers[f].status = Status("Running"),
                    !.fibers[f].value = Value("Int", Len(v.channels) + 1, <<>>)]
         [] status.kind = "Sending" ->
                send(v, status.channel, FiberPerformer(f), status.packet)
         [] status.kind = "Receiving" ->
                receive(v, status.channel, FiberPerformer(f))
         [] status.kind = "InParallelScope" -> spawn(v, f, "body")
         [] status.kind = "InTry" -> spawn(v, f, "try")
         [] status.kind \in {"Done", "Panicked"} -> settle(v, f)
         [] OTHER -> v
\* Vm::status, had it looked at the first fiber only
VmStatus_of_first_fiber(v) ==
    IF v.fibers[1].status.kind \in {"Done", "Panicked"} THEN v.fibers[1].status.kind
    ELSE IF v.fibers[1].status.kind = "Running"
    THEN "CanRun"
    ELSE "WaitingForOperations"

\* Vm::status
VmStatus(v) ==
    IF v.fibers[1].status.kind \in {"Done", "Panicked"} THEN v.fibers[1].status.kind
    ELSE IF \E f \in 1..Len(v.fibers) : v.fibers[f].status.kind = "Running"
    THEN "CanRun"
    ELSE "WaitingForOperations"

RECURSIVE create_all(_, _)
create_all(h, datas) ==
    IF datas = <<>> THEN h ELSE create_all(create(h, Head(datas)).heap, Tail(datas))

\* the status a Running fiber has after it called the builtin function with
\* these arguments
call_builtin(builtin_function, datas) ==
    LET h == create_all(create(HeapDefault, HirId("main")).heap, datas)
        self == [heap |-> h, data_stack |-> <<>>, call_stack |-> <<>>,
                 status |-> Status("Running")]
    IN run_builtin_function(self, builtin_function,
                            [i \in 1..Len(datas) |-> i + 1], 1, FALSE).status

\* the Int a fiber sends with its next send: it tells the channel, the sender
\* and the number of the send, so no two sends carry the same Int
NextPacket(v, f, c) == c * 100 + f * 10 + Len(v.fibers[f].sent) + 1

\* StdoutService::new
StdoutService_new(v, capacity) ==
    receive([create_channel(v, capacity) EXCEPT !.stdout = Len(v.channels) + 1],
            Len(v.channels) + 1, ExternalPerformer(0))

RECURSIVE StdoutService_run(_)
\* StdoutService::run: a completed receive is printed and the next receive is
\* issued; the cli's service goes on while receives complete
StdoutService_run(v) ==
    IF v.completed_operations = <<>> THEN v
    ELSE LET taken == [v EXCEPT !.completed_operations = Tail(@),
                                !.output = Append(@, PacketValue(Head(v.completed_operations)))]
             again == receive(taken, v.stdout, ExternalPerformer(Len(taken.output)))
         IN IF v.service = "cli" THEN StdoutService_run(again) ELSE again

\* ------------------------------------------------------- the VM at work

ChannelCapacities == {0, 2}

Services == {"main", "cli"}

\* the capacity of the channel the service creates
StdoutCapacity(service) == IF service = "main" THEN 1 ELSE 0

NewVm(service) ==
    [fibers |-> <<NewFiber(0, "root")>>, channels |-> <<>>,
     completed_operations |-> <<>>, output |-> <<>>, stdout |-> 0,
     service |-> service, host |-> "running", steps |-> 0]

\* One fiber is about to run the module; the service waits for its first text.
VmInit ==
    /\ heap = HeapDefault
    /\ data_stack = <<>>
    /\ other = HeapDefault
    /\ address_map = EmptyMap
    /\ clone_roots = <<>>
    /\ clone_impl = "old"
    /\ last = [op |-> "init", address |-> 0]
    /\ fiber = NoFiber
    /\ vm \in {StdoutService_new(NewVm(service), StdoutCapacity(service)) :
                  service \in Services}
    /\ compiler = NoCompiler

Runs(f) ==
    /\ vm.host = "running"
    /\ f \in 1..Len(vm.fibers)
    /\ vm.fibers[f].status.kind = "Running"
    /\ vm.steps < MaxSteps

\* the VM after fiber f ran an instruction that left it in the status
Stopped(v, f, status) ==
    handle([v EXCEPT !.fibers[f].status = status, !.fibers[f].ops = @ + 1,
                     !.steps = @ + 1], f)

\* the calls of builtin functions a fiber may make next
Calls(f) ==
    IF f \notin 1..Len(vm.fibers) THEN {}
    ELSE
        {[builtin_function |-> "ChannelCreate", datas |-> <<Int_(capacity)>>] :
            capacity \in IF Len(vm.channels) < MaxChannels THEN ChannelCapacities ELSE {}}
        \cup {[builtin_function |-> "ChannelSend",
               datas |-> <<SendPort(c), Int_(NextPacket(vm, f, c))>>] : c \in 1..Len(vm.channels)}
        \cup {[builtin_function |-> "ChannelReceive", datas |-> <<ReceivePort(c)>>] :
                  c \in 1..Len(vm.channels)}
        \cup {[builtin_function |-> "Parallel", datas |-> <<Closure(num_args, <<>>, <<1>>)>>] :
                  num_args \in IF Len(vm.fibers) < MaxFibers THEN {0, 1} ELSE {}}
        \cup {[builtin_function |-> "Try", datas |-> <<Closure(0, <<>>, <<1>>)>>] :
                  x \in IF Len(vm.fibers) < MaxFibers THEN {0} ELSE {}}

\* the fiber counts what it sends
Sent(v, f, c) ==
    IF c.builtin_function = "ChannelSend"
    THEN [v EXCEPT !.fibers[f].sent = Append(@, c.datas[2].num)]
    ELSE v

\* Expression::Call of a builtin function: the fiber calls it and the VM
\* handles the status the call leaves the fiber in
RunBuiltin(f, c) ==
    /\ Runs(f)
    /\ c \in Calls(f)
    /\ vm' = Stopped(Sent(vm, f, c), f, call_builtin(c.builtin_function, c.datas))
    /\ last' = [op |-> c.builtin_function, address |-> f]
    /\ UNCHANGED <<heap, data_stack, other, address_map, clone_roots, clone_impl, fiber, compiler>>

\* a fiber of a parallel scope sends a closure to the nursery: the scope gets
\* one more child
RunSpawn(f) ==
    /\ Runs(f)
    /\ Len(vm.fibers) < MaxFibers
    /\ vm.fibers[f].role \in {"body", "spawned"}
    /\ vm' = spawn([vm EXCEPT !.fibers[f].ops = @ + 1, !.steps = @ + 1],
                    vm.fibers[f].parent, "spawned")
    /\ last' = [op |-> "Spawn", address |-> f]
    /\ UNCHANGED <<heap, data_stack, other, address_map, clone_roots, clone_impl, fiber, compiler>>

\* the fiber's last call returns
RunReturn(f) ==
    /\ Runs(f)
    /\ vm' = Stopped([vm EXCEPT !.fibers[f].value = Value("Int", f, <<>>)], f,
                     Status("Done"))
    /\ last' = [op |-> "Return", address |-> f]
    /\ UNCHANGED <<heap, data_stack, other, address_map, clone_roots, clone_impl, fiber, compiler>>

\* Expression::Panic
RunPanic(f) ==
    /\ Runs(f)
    /\ vm' = Stopped(vm, f,
                     panic([status |-> Status("Running")], <<"panicked">>,
                           get_hir_id(create(HeapDefault, HirId("main")).heap, 1)).status)
    /\ last' = [op |-> "Panic", address |-> f]
    /\ UNCHANGED <<heap, data_stack, other, address_map, clone_roots, clone_impl, fiber, compiler>>

\* The host's loop once vm.run returned: the service runs, then a VM that only
\* waits for operations ends the process in todo!(), a Done or Panicked one
\* ends the loop.
HostLoop ==
    /\ vm.host = "running"
    /\ VmStatus(vm) # "CanRun"
    /\ LET ran == StdoutService_run(vm)
       IN vm' = [ran EXCEPT !.host =
                    CASE VmStatus(ran) = "CanRun" -> "running"
                      [] VmStatus(ran) = "WaitingForOperations" -> "aborted"
                      [] OTHER -> "finished"]
    /\ last' = [op |-> "HostLoop", address |-> 0]
    /\ UNCHANGED <<heap, data_stack, other, address_map, clone_roots, clone_impl, fiber, compiler>>

VmNext ==
    \/ \E f \in 1..MaxFibers : \E c \in Calls(f) : RunBuiltin(f, c)
    \/ \E f \in 1..MaxFibers : RunSpawn(f)
    \/ \E f \in 1..MaxFibers : RunReturn(f)
    \/ \E f \in 1..MaxFibers : RunPanic(f)
    \/ HostLoop

\* The VM runs fibers that create channels, send, receive, open scopes, return
\* and panic, and the host runs its service between the runs.
SpecVm == VmInit /\ [][VmNext]_vars

\* ------------------------------------------------------ channels: C1, C5

FiberIds == 1..Len(vm.fibers)

ChannelIds == 1..Len(vm.channels)

IsPrefix(a, b) == Len(a) <= Len(b) /\ a = SubSeq(b, 1, Len(a))

ChannelOf(value) == value \div 100

PacketValues(packets) == [i \in 1..Len(packets) |-> PacketValue(packets[i])]

\* what fiber f sent to channel c, in the order of its sends
SentOn(f, c) == SelectSeq(vm.fibers[f].sent, LAMBDA value : ChannelOf(value) = c)

\* what a receiver got from channel c, in the order of its receives
ReceivedBy(r, c) ==
    IF r.kind = "Fiber"
    THEN SelectSeq(vm.fibers[r.id].received, LAMBDA value : ChannelOf(value) = c)
    ELSE vm.output \o PacketValues(vm.completed_operations)

PendingValues(c) ==
    [i \in 1..Len(vm.channels[c].pending_sends) |->
        PacketValue(vm.channels[c].pending_sends[i][2])]

\* sent and not yet received: the buffer, then the sends that wait
InFlight(c) == PacketValues(vm.channels[c].buffered) \o PendingValues(c)

Senders(c) == {f \in FiberIds : SentOn(f, c) # <<>>}

Receivers(c) ==
    {FiberPerformer(f) : f \in {g \in FiberIds :
        \/ ReceivedBy(FiberPerformer(g), c) # <<>>
        \/ vm.fibers[g].status.kind = "Receiving" /\ vm.fibers[g].status.channel = c}}
    \cup (IF c = vm.stdout THEN {ExternalPerformer(0)} ELSE {})

\* C1: on a channel of capacity at least one with one sending fiber and one
\* receiver, the values the receiver got so far, then the buffered ones, then
\* the ones whose send still waits are the values of the sender's sends in the
\* order of the sends: nothing is lost, doubled or reordered. (A cancelled
\* sender's withdrawn send leaves a prefix.)
C1_ChannelIsFifo ==
    \A c \in ChannelIds : \A s \in Senders(c) : \A r \in Receivers(c) :
        (vm.channels[c].capacity >= 1 /\ Senders(c) = {s} /\ Receivers(c) = {r})
        => IF vm.fibers[s].status.kind = "Cancelled"
           THEN IsPrefix(ReceivedBy(r, c) \o InFlight(c), SentOn(s, c))
           ELSE ReceivedBy(r, c) \o InFlight(c) = SentOn(s, c)

\* one fiber got two values from another fiber over a channel with a buffer
C1_Witness ==
    \E c \in ChannelIds : \E s \in Senders(c) : \E r \in Receivers(c) :
        /\ vm.channels[c].capacity >= 1
        /\ Senders(c) = {s} /\ Receivers(c) = {r}
        /\ r.kind = "Fiber" /\ r.id # s
        /\ Len(ReceivedBy(r, c)) >= 2

Elements(s) == {s[i] : i \in 1..Len(s)}

\* the values anyone got from channel c
Delivered(c) ==
    UNION {Elements(ReceivedBy(r, c)) : r \in Receivers(c)}

WaitsToSend(f, c) ==
    vm.fibers[f].status.kind = "Sending" /\ vm.fibers[f].status.channel = c

WaitsToReceive(f, c) ==
    vm.fibers[f].status.kind = "Receiving" /\ vm.fibers[f].status.channel = c

\* C5: a channel never buffers more packets than its capacity. A fiber is left
\* Sending only with its send pending, the buffer full and no receive waiting;
\* a fiber is left Receiving only with its receive pending, the buffer empty
\* and no send waiting. A send that is no longer pending put its packet in the
\* buffer or into the hands of a receiver. This holds for capacity 0 as well.
C5_ChannelCapacity ==
    /\ \A c \in ChannelIds :
          /\ Len(vm.channels[c].buffered) <= vm.channels[c].capacity
          /\ \A f \in FiberIds :
                /\ WaitsToSend(f, c) =>
                      /\ \E i \in 1..Len(vm.channels[c].pending_sends) :
                            vm.channels[c].pending_sends[i][1] = FiberPerformer(f)
                      /\ Len(vm.channels[c].buffered) >= vm.channels[c].capacity
                      /\ vm.channels[c].pending_receives = <<>>
                /\ WaitsToReceive(f, c) =>
                      /\ FiberPerformer(f) \in Elements(vm.channels[c].pending_receives)
                      /\ vm.channels[c].buffered = <<>>
                      /\ vm.channels[c].pending_sends = <<>>
    /\ \A f \in FiberIds : \A i \in 1..Len(vm.fibers[f].sent) :
          LET value == vm.fibers[f].sent[i]
              c == ChannelOf(value)
          IN \/ value \in Elements(PendingValues(c)) /\ WaitsToSend(f, c)
             \/ value \in Elements(PacketValues(vm.channels[c].buffered))
             \/ value \in Delivered(c)
             \/ vm.fibers[f].status.kind = "Cancelled" /\ i = Len(vm.fibers[f].sent)

\* on a channel of capacity 0 one send was handed to a receiver and the
\* sender's next send waits
C5_Witness ==
    \E c \in ChannelIds : \E f \in FiberIds :
        /\ vm.channels[c].capacity = 0
        /\ WaitsToSend(f, c)
        /\ Len(SentOn(f, c)) >= 2
        /\ SentOn(f, c)[1] \in Delivered(c)

\* ------------------------------------------------- scopes: C2, C3, C4, C6

Inside(v, p) == {f \in 1..Len(v.fibers) : p \in Ancestors(v, f)}

\* the body of the try the fiber is in
TryChild(v, p) == CHOOSE f \in ScopeChildren(v, p) : v.fibers[f].role = "try"

C2_Step ==
    /\ last'.op = "Try" =>
          /\ vm'.fibers[last'.address].status.kind = "InTry"
          /\ \E f \in ScopeChildren(vm', last'.address) :
                vm'.fibers[f].role = "try" /\ vm'.fibers[f].status.kind = "Running"
    /\ \A p \in FiberIds :
          (vm.fibers[p].status.kind = "InTry" /\ vm'.fibers[p].status.kind # "Cancelled") =>
              LET child == vm'.fibers[TryChild(vm, p)]
              IN /\ child.status.kind = "Done" =>
                      /\ vm'.fibers[p].status.kind = "Running"
                      /\ vm'.fibers[p].value = Value("Ok", child.value.value, <<>>)
                 /\ child.status.kind = "Panicked" =>
                      /\ vm'.fibers[p].status.kind = "Running"
                      /\ vm'.fibers[p].value = Value("Error", 0, child.status.reason)
                      /\ \A a \in Ancestors(vm, p) :
                            vm'.fibers[a].status = vm.fibers[a].status
                 /\ child.status.kind \notin {"Done", "Panicked"} =>
                      vm'.fibers[p].status.kind = "InTry"

\* C2: a fiber that calls try is InTry while the body runs in a child. When
\* the body is Done with a value the fiber runs again with Ok of the value;
\* when the body panics the fiber runs again with Error of the reason, and no
\* fiber above it changes its status.
C2_TryCatchesPanic == [][C2_Step]_vars

\* a try gave Error while the fiber that called it was itself inside a scope
C2_Witness ==
    \E p \in FiberIds :
        /\ vm.fibers[p].parent # 0
        /\ vm.fibers[p].status.kind = "Running"
        /\ vm.fibers[p].value.tag = "Error"
        /\ vm.fibers[p].value.reason # <<>>

\* C3: while a fiber spawned inside a scope, directly or through further
\* scopes, has not settled, the fiber that opened the scope is InParallelScope
\* or InTry: it is not Done and does not run.
C3_ParentWaitsForDescendants ==
    \A p \in FiberIds : \A d \in Inside(vm, p) :
        ~Terminal(vm.fibers[d].status)
        => vm.fibers[p].status.kind \in {"InParallelScope", "InTry"}

\* a parallel scope with a body and a spawned fiber is over and the fiber that
\* opened it is Done
C3_Witness ==
    \E p \in FiberIds :
        /\ vm.fibers[p].status.kind = "Done"
        /\ \E b, s \in ChildrenOf(vm, p) :
              /\ vm.fibers[b].role = "body" /\ vm.fibers[s].role = "spawned"
              /\ vm.fibers[b].scope = vm.fibers[s].scope
              /\ vm.fibers[b].status.kind = "Done"
              /\ vm.fibers[s].status.kind = "Done"

NoPendingOfCancelled(v) ==
    \A c \in 1..Len(v.channels) : \A f \in 1..Len(v.fibers) :
        v.fibers[f].status.kind = "Cancelled" =>
            /\ FiberPerformer(f) \notin Elements(v.channels[c].pending_receives)
            /\ \A i \in 1..Len(v.channels[c].pending_sends) :
                  v.channels[c].pending_sends[i][1] # FiberPerformer(f)

C4_Step ==
    /\ NoPendingOfCancelled(vm')
    /\ \A f \in FiberIds :
          vm.fibers[f].status.kind = "Cancelled" => vm'.fibers[f] = vm.fibers[f]
    /\ \A p \in FiberIds :
          (/\ vm.fibers[p].status.kind \in {"InParallelScope", "InTry"}
           /\ vm'.fibers[p].status.kind \in {"Panicked", "Cancelled"}) =>
              \A d \in Inside(vm', p) :
                  /\ Terminal(vm'.fibers[d].status)
                  /\ (d \in FiberIds /\ ~Terminal(vm.fibers[d].status)) =>
                        vm'.fibers[d].status.kind \in {"Cancelled", "Panicked"}

\* C4: when a fiber in a scope is cancelled or panics because a fiber of its
\* scope panicked, every fiber inside its scopes that had not settled settles in
\* the same step, Cancelled unless it is one that panicked. A Cancelled fiber
\* has no pending operation left in any channel and never changes again.
C4_CancellationReachesDescendants == [][C4_Step]_vars

\* a fiber two scopes below a panicked fiber is Cancelled and so is a fiber
\* that waited for a channel
C4_Witness ==
    \E p \in FiberIds : \E d \in Inside(vm, p) :
        /\ vm.fibers[p].status.kind = "Panicked"
        /\ vm.fibers[d].parent # p
        /\ vm.fibers[d].status.kind = "Cancelled"
        /\ vm.fibers[vm.fibers[d].parent].status.kind = "Cancelled"

CanComplete(channel) ==
    \/ channel.pending_sends # <<>> /\ channel.pending_receives # <<>>
    \/ channel.pending_sends # <<>> /\ Len(channel.buffered) < channel.capacity
    \/ channel.pending_receives # <<>> /\ channel.buffered # <<>>

NoFiberCanRun == \A f \in FiberIds : vm.fibers[f].status.kind # "Running"

NoOperationCanComplete == \A c \in ChannelIds : ~CanComplete(vm.channels[c])

MaxRecount == 2

\* Heap::reset_reference_counts: every channel refcount and every object's
\* reference count becomes 0.
reset_reference_counts(h) ==
    [h EXCEPT !.channel_refcounts = [c \in DOMAIN h.channel_refcounts |-> 0],
              !.objects = [a \in DOMAIN h.objects |->
                              IF h.objects[a].kind = "None" THEN h.objects[a]
                              ELSE [h.objects[a] EXCEPT !.reference_count = 0]]]

\* Heap::deallocate: the object leaves the heap and its memory is given back.
\* What the object holds is not touched.
deallocate(h, object) ==
    [h EXCEPT !.objects[object] = None, !.empty_addresses = Append(@, object)]

RECURSIVE deallocate_all(_, _)
\* for object in to_deallocate { self.deallocate(object) }
deallocate_all(h, to_deallocate) ==
    IF to_deallocate = {} THEN h
    ELSE LET object == CHOOSE x \in to_deallocate : TRUE
         IN deallocate_all(deallocate(h, object), to_deallocate \ {object})

RECURSIVE free_all(_, _)
free_all(h, to_deallocate) ==
    IF to_deallocate = {} THEN h
    ELSE LET object == CHOOSE x \in to_deallocate : TRUE
         IN free_all(IF IsSome(h, object) THEN free(h, object) ELSE h,
                     to_deallocate \ {object})

\* The channel refcounts that are not 0.
retain_referenced(refcounts) ==
    Without(refcounts, {c \in DOMAIN refcounts : refcounts[c] = 0})

drop_all_unreferenced_freeing(h) ==
    free_all([h EXCEPT !.channel_refcounts = retain_referenced(@)],
             {a \in Addresses(h) : get(h, a).reference_count = 0})

\* Heap::drop_all_unreferenced: the channel refcounts of 0 go, then the objects
\* whose reference count is 0 when the call starts are deallocated.
drop_all_unreferenced(h) ==
    deallocate_all([h EXCEPT !.channel_refcounts = retain_referenced(@)],
                   {a \in Addresses(h) : get(h, a).reference_count = 0})

\* Heap::notify_port_created
notify_port_created(h, channel_id) ==
    IF channel_id \in DOMAIN h.channel_refcounts
    THEN [h EXCEPT !.channel_refcounts[channel_id] = @ + 1]
    ELSE [h EXCEPT !.channel_refcounts = (channel_id :> 1) @@ @]

\* Heap::dup_channel_by: a channel without an entry is a Rust panic.
dup_channel_by(h, channel_id, amount) ==
    IF channel_id \notin DOMAIN h.channel_refcounts THEN Abort(h)
    ELSE [h EXCEPT !.channel_refcounts[channel_id] = @ + amount]

\* The objects that hold the object.
Holders(h, object) ==
    {x \in Addresses(h) : object \in SeqRange(get(h, x).children)}

Building == last.op \in {"init", "allocate"}

Recounting == last.op \in {"reset_reference_counts", "recount"}

\* What is allocated: integers and lists of up to two objects that nothing holds
\* yet. Ports are inline objects: the heap only counts them per channel.
Allocatable(h) ==
    LET unheld == {a \in Addresses(h) : Holders(h, a) = {}}
    IN { Data("Int", 0, <<>>, <<>>, <<>>) }
       \cup { Data("List", 0, <<>>, <<a>>, <<>>) : a \in unheld }
       \cup { Data("List", 0, <<>>, <<a, b>>, <<>>) :
                  <<a, b>> \in {p \in unheld \X unheld : p[1] # p[2]} }

\* Heap::allocate: the object starts with one reference; the objects it holds
\* are moved into it.
Allocate(data) ==
    /\ Building
    /\ Cardinality(Addresses(heap)) < MaxObjects
    /\ LET r == create(heap, data)
       IN /\ heap' = r.heap
          /\ last' = [op |-> "allocate", address |-> r.address]
    /\ UNCHANGED <<data_stack, other, address_map, clone_roots, clone_impl, fiber, vm, compiler>>

NotifyPortCreated(channel_id) ==
    /\ Building
    /\ channel_id \notin DOMAIN heap.channel_refcounts
    /\ heap' = notify_port_created(heap, channel_id)
    /\ last' = [op |-> "allocate", address |-> 0]
    /\ UNCHANGED <<data_stack, other, address_map, clone_roots, clone_impl, fiber, vm, compiler>>

ResetReferenceCounts ==
    /\ Building
    /\ heap' = reset_reference_counts(heap)
    /\ last' = [op |-> "reset_reference_counts", address |-> 0]
    /\ UNCHANGED <<data_stack, other, address_map, clone_roots, clone_impl, fiber, vm, compiler>>

\* HeapObject::dup while the references are counted again.
Recount(object) ==
    /\ Recounting
    /\ object \in Addresses(heap)
    /\ get(heap, object).reference_count < MaxRecount
    /\ heap' = dup(heap, object)
    /\ last' = [op |-> "recount", address |-> object]
    /\ UNCHANGED <<data_stack, other, address_map, clone_roots, clone_impl, fiber, vm, compiler>>

\* Heap::dup_channel_by while the references are counted again.
RecountChannel(channel_id) ==
    /\ Recounting
    /\ channel_id \in DOMAIN heap.channel_refcounts
    /\ heap.channel_refcounts[channel_id] < MaxRecount
    /\ heap' = dup_channel_by(heap, channel_id, 1)
    /\ last' = [op |-> "recount", address |-> 0]
    /\ UNCHANGED <<data_stack, other, address_map, clone_roots, clone_impl, fiber, vm, compiler>>

DropAllUnreferenced ==
    /\ Recounting
    /\ heap' = drop_all_unreferenced(heap)
    /\ last' = [op |-> "drop_all_unreferenced", address |-> 0]
    /\ UNCHANGED <<data_stack, other, address_map, clone_roots, clone_impl, fiber, vm, compiler>>

UnreferencedNext ==
    \/ \E data \in Allocatable(heap) : Allocate(data)
    \/ \E channel_id \in 1..MaxChannels : NotifyPortCreated(channel_id)
    \/ ResetReferenceCounts
    \/ \E object \in 1..MaxObjects : Recount(object)
    \/ \E channel_id \in 1..MaxChannels : RecountChannel(channel_id)
    \/ DropAllUnreferenced

\* The heap is built, its reference counts are reset and counted again, and the
\* unreferenced objects are swept.
SpecUnreferenced == HeapInit /\ [][UnreferencedNext]_vars

Swept == last'.op = "drop_all_unreferenced"

C11_SweepStep ==
    Swept =>
        /\ Addresses(heap') = {a \in Addresses(heap) : get(heap, a).reference_count > 0}
        /\ \A a \in Addresses(heap') : get(heap', a) = get(heap, a)
        /\ \A a \in Addresses(heap') : get(heap', a).reference_count # 0
        /\ heap'.channel_refcounts = retain_referenced(heap.channel_refcounts)
        /\ ~heap'.aborted

C11_TransitiveStep ==
    Swept =>
        /\ \A a \in Addresses(heap') : get(heap', a).reference_count # 0
        /\ \A y \in Addresses(heap) :
               ( /\ Holders(heap, y) # {}
                 /\ Holders(heap, y) \cap Addresses(heap') = {} )
               => y \notin Addresses(heap')

MaxPorts == 2
MaxPackets == 1
MaxPortReferences == 2

\* Heap::create_send_port
create_send_port(h, channel) == create(h, SendPort(channel))

\* Heap::create_receive_port
create_receive_port(h, channel) == create(h, ReceivePort(channel))

\* The object with every address it holds moved by offset.
Moved(object, offset) ==
    [object EXCEPT !.children = [i \in 1..Len(@) |-> @[i] + offset]]

\* Heap::adopt: the objects of the other heap join this heap's objects, and the
\* other heap's channel refcounts are added to this heap's.
adopt(h, other_heap) ==
    LET offset == Len(h.objects)
        channels == DOMAIN h.channel_refcounts \cup DOMAIN other_heap.channel_refcounts
        refcount(counts, c) == IF c \in DOMAIN counts THEN counts[c] ELSE 0
    IN [h EXCEPT
           !.objects = @ \o [a \in 1..Len(other_heap.objects) |->
                                Moved(other_heap.objects[a], offset)],
           !.empty_addresses = @ \o [i \in 1..Len(other_heap.empty_addresses) |->
                                        other_heap.empty_addresses[i] + offset],
           !.channel_refcounts =
               [c \in channels |-> refcount(h.channel_refcounts, c)
                                   + refcount(other_heap.channel_refcounts, c)]]

PortKinds == {"SendPort", "ReceivePort"}

\* Heap::create_send_port, Heap::create_receive_port; the stack holds the reference.
CreatePort(kind, channel) ==
    /\ ~heap.aborted
    /\ Cardinality(Addresses(heap)) < MaxPorts
    /\ Len(data_stack) < MaxStack
    /\ LET r == IF kind = "SendPort" THEN create_send_port(heap, channel)
                ELSE create_receive_port(heap, channel)
       IN /\ heap' = r.heap
          /\ data_stack' = Append(data_stack, r.address)
          /\ last' = [op |-> "create", address |-> r.address]
    /\ UNCHANGED <<other, address_map, clone_roots, clone_impl, fiber, vm, compiler>>

\* Heap::create_list of the top stack entry.
CreatePortList ==
    /\ Cardinality(Addresses(heap)) < MaxPorts
    /\ CreateComposite("List", 1)

\* Heap::clone_single_to_other_heap for a stack entry: a clone call with a
\* mapping of its own, into the new heap of a packet.
CloneToOther(i) ==
    /\ ~heap.aborted
    /\ other = HeapDefault
    /\ i \in 1..Len(data_stack)
    /\ Len(clone_roots) < MaxPackets
    /\ LET r == clone_single_to_other_heap(heap, other, data_stack[i])
       IN /\ other' = r.other
          /\ address_map' = r.address_map
          /\ clone_roots' = Append(clone_roots, <<data_stack[i], r.address>>)
          /\ last' = [op |-> "clone", address |-> data_stack[i]]
    /\ UNCHANGED <<heap, data_stack, clone_impl, fiber, vm, compiler>>

\* Heap::dup in the heap the objects were cloned into.
DupOther(address) ==
    /\ ~other.aborted
    /\ address \in Addresses(other)
    /\ get(other, address).reference_count < MaxPortReferences
    /\ other' = dup(other, address)
    /\ last' = [op |-> "dup other", address |-> address]
    /\ UNCHANGED <<heap, data_stack, address_map, clone_roots, clone_impl, fiber, vm, compiler>>

\* Heap::drop in the heap the objects were cloned into, for a clone that nothing
\* in that heap holds.
DropOther(address) ==
    /\ ~other.aborted
    /\ address \in Addresses(other)
    /\ Holders(other, address) = {}
    /\ other' = drop(other, address)
    /\ last' = [op |-> "drop other", address |-> address]
    /\ UNCHANGED <<heap, data_stack, address_map, clone_roots, clone_impl, fiber, vm, compiler>>

\* Heap::adopt: the heap takes over the heap that was cloned into; the mapping of
\* the clone calls ends with it.
Adopt ==
    /\ ~heap.aborted
    /\ ~other.aborted
    /\ Addresses(other) # {}
    /\ Cardinality(Addresses(heap)) + Cardinality(Addresses(other)) <= MaxObjects
    /\ heap' = adopt(heap, other)
    /\ other' = HeapDefault
    /\ address_map' = EmptyMap
    /\ last' = [op |-> "adopt", address |-> 0]
    /\ UNCHANGED <<data_stack, clone_roots, clone_impl, fiber, vm, compiler>>

PortsNext ==
    \/ \E kind \in PortKinds, channel \in 1..MaxChannels : CreatePort(kind, channel)
    \/ CreatePortList
    \/ \E i \in 1..MaxStack : Dup(i)
    \/ \E i \in 1..MaxStack : Drop(i)
    \/ \E i \in 1..MaxStack : CloneToOther(i)
    \/ \E address \in 1..MaxObjects : DupOther(address)
    \/ \E address \in 1..MaxObjects : DropOther(address)
    \/ Adopt

\* Ports are created, dup'ed and dropped in one heap, cloned into another heap,
\* dup'ed and dropped there, and the other heap is adopted.
SpecPorts == HeapInit /\ [][PortsNext]_vars

RECURSIVE PortReferences(_, _, _)
\* The reference counts of the ports of the channel at the addresses 1..n, added up.
PortReferences(h, channel, n) ==
    IF n = 0 THEN 0
    ELSE (IF IsSome(h, n) /\ IsPort(get(h, n)) /\ get(h, n).num = channel
          THEN get(h, n).reference_count ELSE 0)
         + PortReferences(h, channel, n - 1)

ChannelRefcountsMatch(h) ==
    \A channel \in 1..MaxChannels :
        LET total == PortReferences(h, channel, Len(h.objects))
        IN /\ channel \in DOMAIN h.channel_refcounts <=> total > 0
           /\ channel \in DOMAIN h.channel_refcounts
                  => h.channel_refcounts[channel] = total

\* C12: in every heap and for every channel, the channel refcount is the total
\* reference count of the heap's ports of that channel, the entry is absent
\* exactly when the total is 0, and no dup or drop of a port hits a missing
\* entry, after any creation, dup, drop, clone into another heap and adopt.
C12_ChannelRefcountsMatchPorts ==
    /\ ~heap.aborted
    /\ ~other.aborted
    /\ ChannelRefcountsMatch(heap)
    /\ ChannelRefcountsMatch(other)

\* Until something is cloned into another heap, the channel refcounts match.
MatchWithoutClone ==
    clone_roots = <<>> => ~heap.aborted /\ ChannelRefcountsMatch(heap)

\* A dup or drop of a cloned port hit a missing channel entry.
C12_MissingEntry == other.aborted

\* ------------------------------------------ C13, C14: builtins that fail

\* The fiber has made a builtin call in this step.
Calling == fiber'.calls = fiber.calls + 1

\* The data stack below the arguments of the call.
BelowArguments == SubSeq(data_stack, 1, Len(data_stack) - Len(fiber'.args))

ListIndexBuiltins == {"ListGet", "ListInsert", "ListRemoveAt", "ListReplace"}

\* The call is a list builtin's, with a list and an index that is outside the
\* list or does not fit a usize. listInsert takes the length as an index.
IndexOutOfRange(h, builtin_function, args) ==
    /\ builtin_function \in ListIndexBuiltins
    /\ Len(args) = (IF builtin_function \in {"ListInsert", "ListReplace"} THEN 3 ELSE 2)
    /\ get(h, args[1]).kind = "List"
    /\ get(h, args[2]).kind = "Int"
    /\ LET index == get(h, args[2]).num
           length == Len(get(h, args[1]).children)
       IN \/ ~Fits(index, UsizeMax)
          \/ IF builtin_function = "ListInsert" THEN index > length
             ELSE index >= length

C13_Step ==
    (Calling /\ IndexOutOfRange(heap, fiber'.builtin_function, fiber'.args)) =>
        /\ ~heap'.aborted
        /\ fiber'.status.kind = "Panicked"
        /\ fiber'.status.reason # <<>>
        /\ fiber'.status.responsible = get_hir_id(heap, fiber.responsible)

\* C13: listGet, listInsert, listRemoveAt and listReplace called with an index
\* outside the list, or one that does not fit a machine word, leave the fiber
\* Panicked with a reason and the responsible HIR id of the call, and the
\* process does not abort.
C13_ListIndexOutOfRangePanicsFiber == [][C13_Step]_vars

\* A list builtin called with an index outside the list has ended the process.
C13_ProcessAborted ==
    /\ fiber.calls = 1
    /\ fiber.builtin_function \in ListIndexBuiltins
    /\ heap.aborted
    /\ fiber.status.kind = "Running"

DivisionBuiltins == {"IntDivideTruncating", "IntModulo", "IntRemainder"}

\* The call is a division's, with two integers of which the divisor is 0.
DivisorIsZero(h, builtin_function, args) ==
    /\ builtin_function \in DivisionBuiltins
    /\ Len(args) = 2
    /\ get(h, args[1]).kind = "Int"
    /\ get(h, args[2]).kind = "Int"
    /\ get(h, args[2]).num = 0

C14_Step ==
    (Calling /\ DivisorIsZero(heap, fiber'.builtin_function, fiber'.args)) =>
        /\ ~heap'.aborted
        /\ fiber'.status.kind = "Panicked"
        /\ fiber'.status.reason = DivideByZero
        /\ fiber'.status.responsible = get_hir_id(heap, fiber.responsible)
        /\ data_stack' = BelowArguments
        /\ fiber'.call_stack = fiber.call_stack

MaxCapacityExcess == 3

\* The capacities channelCreate is called with: every usize, and some integers
\* below 0 and above the largest usize.
Capacities == (0 - MaxCapacityExcess)..(UsizeMax + MaxCapacityExcess)

\* A fiber about to call channelCreate: the capacity is on its data stack.
ChannelCreateInit ==
    /\ \E capacity \in Capacities :
           LET r == create_int(create(HeapDefault, HirId("main")).heap, capacity)
           IN /\ heap = r.heap
              /\ data_stack = <<r.address>>
    /\ other = HeapDefault
    /\ address_map = EmptyMap
    /\ clone_roots = <<>>
    /\ clone_impl = "old"
    /\ last = [op |-> "init", address |-> 0]
    /\ fiber = [status |-> Status("Running"), call_stack |-> <<>>, responsible |-> 1,
                calls |-> 0, builtin_function |-> "None", args |-> <<>>]
    /\ vm = NoVm
    /\ compiler = NoCompiler

ChannelCreateNext == CallBuiltin("ChannelCreate", 1, FALSE)

\* channelCreate called with each capacity.
SpecChannelCreate == ChannelCreateInit /\ [][ChannelCreateNext]_vars

C15_Step ==
    ( /\ Calling
      /\ fiber'.builtin_function = "ChannelCreate"
      /\ Len(fiber'.args) = 1
      /\ get(heap, fiber'.args[1]).kind = "Int" ) =>
        LET capacity == get(heap, fiber'.args[1]).num
        IN /\ ~heap'.aborted
           /\ data_stack' = BelowArguments
           /\ IF capacity < 0 \/ capacity > UsizeMax
              THEN /\ fiber'.status.kind = "Panicked"
                   /\ fiber'.status.reason = CapacityError
                   /\ fiber'.status.responsible = get_hir_id(heap, fiber.responsible)
              ELSE /\ fiber'.status.kind = "CreatingChannel"
                   /\ fiber'.status.capacity = capacity

\* C15: channelCreate called with a capacity that is negative or above the
\* largest usize panics the fiber with the one fixed reason and never leaves it
\* CreatingChannel; with any other integer the fiber is CreatingChannel with
\* exactly that capacity.
C15_ChannelCreateCapacity == [][C15_Step]_vars

\* channelCreate has panicked for the capacity one above the largest usize.
C15_Witness ==
    /\ fiber.calls = 1
    /\ fiber.builtin_function = "ChannelCreate"
    /\ fiber.status.kind = "Panicked"
    /\ get(heap, fiber.args[1]).num = UsizeMax + 1

\* channelCreate has left the fiber CreatingChannel with the largest usize.
CreatingLargestChannel ==
    /\ fiber.calls = 1
    /\ fiber.status.kind = "CreatingChannel"
    /\ fiber.status.capacity = UsizeMax

\* ------------------------------------------------ parsing: whitespace
\* The source is a sequence of characters. A parser returns what it matched as
\* an Rcst, [kind, text], and the input that is left.

MaxInput == 5
MaxIndentation == 2

Alphabet == {" ", "\t", "\n", "\r", "#", "a"}

Inputs == UNION {[1..n -> Alphabet] : n \in 0..MaxInput}

\* Option::None of a parser
NoMatch == [ok |-> FALSE, rest |-> <<>>, part |-> [kind |-> "None", text |-> <<>>]]

Match(rest, kind, text) == [ok |-> TRUE, rest |-> rest, part |-> [kind |-> kind, text |-> text]]

\* input with its first n characters taken off
Skip(input, n) == SubSeq(input, n + 1, Len(input))

RECURSIVE LeadingIn(_, _)
\* how many characters at the start of the input are in the set
LeadingIn(input, set) ==
    IF input = <<>> \/ Head(input) \notin set THEN 0
    ELSE 1 + LeadingIn(Tail(input), set)

\* fn octothorpe
octothorpe(input) ==
    IF input # <<>> /\ Head(input) = "#"
    THEN Match(Tail(input), "Octothorpe", <<"#">>) ELSE NoMatch

\* fn newline
newline(input) ==
    IF input # <<>> /\ Head(input) = "\n"
    THEN Match(Tail(input), "Newline", <<"\n">>)
    ELSE IF Len(input) >= 2 /\ input[1] = "\r" /\ input[2] = "\n"
         THEN Match(Skip(input, 2), "Newline", <<"\r", "\n">>)
         ELSE NoMatch

\* fn single_line_whitespace: spaces, and the supported whitespace that is no
\* line break (the tab), which makes it an error
single_line_whitespace(input) ==
    LET n == LeadingIn(input, {" ", "\t"})
        whitespace == SubSeq(input, 1, n)
    IN IF "\t" \in SeqRange(whitespace)
       THEN Match(Skip(input, n), "Error WeirdWhitespace", whitespace)
       ELSE IF n > 0 THEN Match(Skip(input, n), "Whitespace", whitespace)
       ELSE NoMatch

\* fn comment: the octothorpe and everything up to the end of the line
comment(input) ==
    IF ~octothorpe(input).ok THEN NoMatch
    ELSE LET n == LeadingIn(Tail(input), Alphabet \ {"\n", "\r"})
         IN Match(Skip(input, n + 1), "Comment", SubSeq(input, 1, n + 1))

\* fn whitespace_indentation_score
whitespace_indentation_score(c) == IF c = "\t" THEN 2 ELSE 1

RECURSIVE indentation_loop(_, _, _)
\* the loop of leading_indentation: how many characters make up the
\* indentation, -1 when the line is indented less
indentation_loop(input, missing_score, taken) ==
    IF missing_score <= 0 THEN taken
    ELSE IF input = <<>> \/ Head(input) \notin {" ", "\t"} THEN 0 - 1
    ELSE indentation_loop(Tail(input),
                          missing_score - whitespace_indentation_score(Head(input)),
                          taken + 1)

\* fn leading_indentation
leading_indentation(input, indentation) ==
    LET n == indentation_loop(input, 2 * indentation, 0)
    IN IF n < 0 THEN NoMatch
       ELSE IF "\t" \in SeqRange(SubSeq(input, 1, n))
            THEN Match(Skip(input, n), "Error WeirdWhitespaceInIndentation",
                       SubSeq(input, 1, n))
            ELSE Match(Skip(input, n), "Whitespace", SubSeq(input, 1, n))

\* input = new_input; parts.append(&mut new_parts)
Commit(st) ==
    [st EXCEPT !.input = st.new_input, !.parts = @ \o st.new_parts, !.new_parts = <<>>]

\* new_input = new_new_input; new_parts.push(part)
Advance(st, matched) ==
    [st EXCEPT !.new_input = matched.rest, !.new_parts = Append(@, matched.part)]

\* the start of whitespaces_and_newlines, up to the loop
BeforeLoop(input) ==
    LET start == [input |-> input, parts |-> <<>>, new_input |-> input,
                  new_parts |-> <<>>, is_sufficiently_indented |-> TRUE]
    IN IF single_line_whitespace(input).ok
       THEN Commit(Advance(start, single_line_whitespace(input)))
       ELSE start

\* the end of the loop body: the indentation, or else whitespace
AfterIndentation(st, indentation) ==
    IF leading_indentation(st.new_input, indentation).ok
    THEN [Commit(Advance(st, leading_indentation(st.new_input, indentation)))
             EXCEPT !.is_sufficiently_indented = TRUE]
    ELSE IF single_line_whitespace(st.new_input).ok
         THEN Advance(st, single_line_whitespace(st.new_input))
         ELSE st

\* parts without the empty Whitespace
NonEmptyParts(parts) ==
    SelectSeq(parts, LAMBDA it : ~(it.kind = "Whitespace" /\ it.text = <<>>))

\* compiler/src/compiler/string_to_rcst.rs: the loop body up to the newline. A
\* comment is taken whenever also_comments is set; a newline first commits what
\* was parsed before it.
compiler_AfterNewline(st, also_comments) ==
    LET commented == IF also_comments /\ comment(st.new_input).ok
                     THEN Commit(Advance(st, comment(st.new_input)))
                     ELSE st
    IN IF newline(commented.new_input).ok
       THEN Advance(Commit(commented), newline(commented.new_input))
       ELSE commented

RECURSIVE compiler_loop(_, _, _)
compiler_loop(st, indentation, also_comments) ==
    IF AfterIndentation(compiler_AfterNewline(st, also_comments), indentation).new_input
           = st.new_input
    THEN AfterIndentation(compiler_AfterNewline(st, also_comments), indentation)
    ELSE compiler_loop(
             AfterIndentation(compiler_AfterNewline(st, also_comments), indentation),
             indentation, also_comments)

\* compiler/src/compiler/string_to_rcst.rs: fn whitespaces_and_newlines
compiler_whitespaces_and_newlines(input, indentation, also_comments) ==
    [input |-> compiler_loop(BeforeLoop(input), indentation, also_comments).input,
     parts |-> NonEmptyParts(
                   compiler_loop(BeforeLoop(input), indentation, also_comments).parts)]

\* frontend/src/string_to_rcst/whitespace.rs: the loop body up to the newline. A
\* comment is taken only on a sufficiently indented line; a newline waits for
\* the indentation that follows it.
AfterNewline(st, also_comments) ==
    LET commented == IF also_comments /\ st.is_sufficiently_indented
                        /\ comment(st.new_input).ok
                     THEN Commit(Advance(st, comment(st.new_input)))
                     ELSE st
    IN IF newline(commented.new_input).ok
       THEN [Advance(commented, newline(commented.new_input))
                EXCEPT !.is_sufficiently_indented = FALSE]
       ELSE commented

RECURSIVE loop(_, _, _)
loop(st, indentation, also_comments) ==
    IF AfterIndentation(AfterNewline(st, also_comments), indentation).new_input
           = st.new_input
    THEN AfterIndentation(AfterNewline(st, also_comments), indentation)
    ELSE loop(AfterIndentation(AfterNewline(st, also_comments), indentation),
              indentation, also_comments)

\* frontend/src/string_to_rcst/whitespace.rs: fn whitespaces_and_newlines
whitespaces_and_newlines(input, indentation, also_comments) ==
    [input |-> loop(BeforeLoop(input), indentation, also_comments).input,
     parts |-> NonEmptyParts(loop(BeforeLoop(input), indentation, also_comments).parts)]

\* The two crates that parse: compiler/src/compiler and compiler/frontend.
Parsers == {"compiler", "frontend"}

WhitespaceInit ==
    /\ heap = HeapDefault
    /\ data_stack = <<>>
    /\ other = HeapDefault
    /\ address_map = EmptyMap
    /\ clone_roots = <<>>
    /\ clone_impl = "old"
    /\ last = [op |-> "init", address |-> 0]
    /\ fiber = NoFiber
    /\ vm = NoVm
    /\ compiler \in [stage : {"Source"}, parser : Parsers, source : Inputs,
                     indentation : 0..MaxIndentation, also_comments : BOOLEAN,
                     input : {<<>>}, parts : {<<>>}]

\* the compiler after the call
Parsed(result) ==
    compiler' = [compiler EXCEPT !.stage = "Whitespace", !.input = result.input,
                                 !.parts = result.parts]

\* whitespaces_and_newlines(source, indentation, also_comments)
ParseWhitespace ==
    /\ compiler.stage = "Source"
    /\ Parsed(IF compiler.parser = "compiler"
              THEN compiler_whitespaces_and_newlines(
                       compiler.source, compiler.indentation, compiler.also_comments)
              ELSE whitespaces_and_newlines(
                       compiler.source, compiler.indentation, compiler.also_comments))
    /\ UNCHANGED machine

\* whitespaces_and_newlines called on every short source.
SpecWhitespace == WhitespaceInit /\ [][ParseWhitespace]_vars

\* What the call consumed of the source.
Consumed == SubSeq(compiler.source, 1, Len(compiler.source) - Len(compiler.input))

RECURSIVE Texts(_)
\* the text of the parts, one after the other
Texts(parts) == IF parts = <<>> THEN <<>> ELSE Head(parts).text \o Texts(Tail(parts))

\* The position a line starts at: 1, or the one after a line feed.
LineStarts(source) ==
    {1} \cup {q \in 2..(Len(source) + 1) : source[q - 1] = "\n"}

\* The start of the line the position is on.
LineStartOf(source, i) ==
    CHOOSE q \in LineStarts(source) :
        q <= i /\ \A r \in LineStarts(source) : r <= i => r <= q

RECURSIVE Score(_)
Score(whitespace) ==
    IF whitespace = <<>> THEN 0
    ELSE whitespace_indentation_score(Head(whitespace)) + Score(Tail(whitespace))

\* The line that starts at q is indented by at least the indentation.
Indented(source, q, indentation) ==
    LET line == Skip(source, q - 1)
    IN Score(SubSeq(line, 1, LeadingIn(line, {" ", "\t"}))) >= 2 * indentation

\* After the line feed at i a line that is indented enough follows, with nothing
\* but whitespace and line breaks in between.
IndentedLineFollows(source, i, indentation) ==
    \E q \in LineStarts(source) :
        /\ q > i
        /\ \A j \in (i + 1)..(q - 1) : source[j] \in {" ", "\t", "\n", "\r"}
        /\ Indented(source, q, indentation)

ConsumesOnlyIndented ==
    compiler.stage = "Whitespace" =>
        /\ compiler.input = Skip(compiler.source, Len(Consumed))
        /\ Texts(compiler.parts) = Consumed
        /\ \A i \in 1..Len(Consumed) :
               /\ Consumed[i] = "\n" =>
                      IndentedLineFollows(compiler.source, i, compiler.indentation)
               /\ Consumed[i] = "#" =>
                      /\ compiler.also_comments
                      /\ \/ LineStartOf(compiler.source, i) = 1
                         \/ Indented(compiler.source, LineStartOf(compiler.source, i),
                                     compiler.indentation)

\* C17: whitespaces_and_newlines consumes a newline only when a line that is
\* indented by at least the indentation follows, reached through nothing but
\* newlines and whitespace, and consumes a comment only when also_comments is
\* set and the comment is on the first line or on a line indented that much; a
\* newline before less-indented content or a less-indented comment stays in the
\* rest. Stated of both parsers of the repository.
C17_ConsumesOnlyIndentedLines == ConsumesOnlyIndented

\* The same of the frontend's parser alone.
FrontendConsumesOnlyIndentedLines ==
    compiler.parser = "frontend" => ConsumesOnlyIndented

\* The frontend's parser has consumed two newlines and a comment between them.
FrontendConsumedComment ==
    /\ compiler.stage = "Whitespace"
    /\ compiler.parser = "frontend"
    /\ compiler.indentation = 1
    /\ Cardinality({i \in 1..Len(Consumed) : Consumed[i] = "\n"}) = 2
    /\ \E i \in 1..Len(Consumed) : Consumed[i] = "#"

\* The compiler's parser has consumed a newline and the comment after it, which
\* is not indented, at indentation 1.
C17_ConsumedUnindentedComment ==
    /\ compiler.stage = "Whitespace"
    /\ compiler.parser = "compiler"
    /\ compiler.indentation = 1
    /\ Len(Consumed) >= 2
    /\ Consumed[1] = "\n"
    /\ Consumed[2] = "#"

\* ------------------------------------------------------------ the MIR
\* An expression of the MIR. Every variant has the one record shape: num is the
\* value of an Int, name the symbol, the builtin function, the HIR id or the
\* module, text the words of a Text, ids the ids the expression names in the
\* order of its fields, body the body of a Lambda or a Multiple.
Expression(kind, num, name, text, ids, body) ==
    [kind |-> kind, num |-> num, name |-> name, text |-> text, ids |-> ids, body |-> body]

MirInt(value) == Expression("Int", value, "", <<>>, <<>>, <<>>)

MirText(text) == Expression("Text", 0, "", text, <<>>, <<>>)

MirSymbol(symbol) == Expression("Symbol", 0, symbol, <<>>, <<>>, <<>>)

MirBuiltin(builtin) == Expression("Builtin", 0, builtin, <<>>, <<>>, <<>>)

MirHirId(id) == Expression("HirId", 0, id, <<>>, <<>>, <<>>)

MirReference(id) == Expression("Reference", 0, "", <<>>, <<id>>, <<>>)

MirList(items) == Expression("List", 0, "", <<>>, items, <<>>)

\* Struct: keys and values alternate in the ids.
MirStruct(fields) == Expression("Struct", 0, "", <<>>, fields, <<>>)

\* Lambda { parameters, responsible_parameter, body }
MirLambda(parameters, responsible_parameter, body) ==
    Expression("Lambda", Len(parameters), "", <<>>,
               Append(parameters, responsible_parameter), body)

Parameter == Expression("Parameter", 0, "", <<>>, <<>>, <<>>)

\* Call { function, arguments, responsible }
MirCall(function, arguments, responsible) ==
    Expression("Call", 0, "", <<>>, <<function>> \o arguments \o <<responsible>>, <<>>)

\* UseModule { current_module, relative_path, responsible }
MirUseModule(relative_path, responsible) ==
    Expression("UseModule", 0, "", <<>>, <<relative_path, responsible>>, <<>>)

\* Needs { condition, reason, responsible }
MirNeeds(condition, reason, responsible) ==
    Expression("Needs", 0, "", <<>>, <<condition, reason, responsible>>, <<>>)

\* Panic { reason, responsible }
MirPanic(reason, responsible) ==
    Expression("Panic", 0, "", <<>>, <<reason, responsible>>, <<>>)

MirMultiple(body) == Expression("Multiple", 0, "", <<>>, <<>>, body)

\* one (Id, Expression) of a Body
Defined(id, expression) == [id |-> id, expression |-> expression]

\* the fields of a Call
CallFunction(expression) == expression.ids[1]

CallArguments(expression) == SubSeq(expression.ids, 2, Len(expression.ids) - 1)

CallResponsible(expression) == expression.ids[Len(expression.ids)]

\* VisibleExpressions: the expressions defined before, by id
VisibleWith(visible, id, expression) == (id :> expression) @@ visible

RECURSIVE VisibleWithParameters(_, _)
VisibleWithParameters(visible, parameters) ==
    IF parameters = <<>> THEN visible
    ELSE VisibleWithParameters(VisibleWith(visible, Head(parameters), Parameter),
                               Tail(parameters))

RECURSIVE is_constant(_, _)
\* Expression::is_constant
is_constant(expression, visible) ==
    CASE expression.kind \in {"Int", "Text", "Symbol", "Builtin", "HirId"} -> TRUE
      [] expression.kind = "Reference" -> is_constant(visible[expression.ids[1]], visible)
      [] expression.kind \in {"List", "Struct"} ->
             \A i \in 1..Len(expression.ids) :
                 is_constant(visible[expression.ids[i]], visible)
      [] OTHER -> FALSE

RECURSIVE ConstantOf(_, _)
\* the value of a constant, with the references followed
ConstantOf(expression, visible) ==
    IF expression.kind = "Reference" THEN ConstantOf(visible[expression.ids[1]], visible)
    ELSE [kind |-> expression.kind, num |-> expression.num, name |-> expression.name,
          text |-> expression.text,
          items |-> [i \in 1..Len(expression.ids) |->
                        ConstantOf(visible[expression.ids[i]], visible)]]

\* Option<bool>
Some(value) == [some |-> TRUE, value |-> value]

Unknown == [some |-> FALSE, value |-> FALSE]

\* Id::semantically_equals: Some(..) when both are constants, None when the
\* values are only known at run time
semantically_equals(a, b, visible) ==
    IF is_constant(visible[a], visible) /\ is_constant(visible[b], visible)
    THEN Some(ConstantOf(visible[a], visible) = ConstantOf(visible[b], visible))
    ELSE Unknown

\* Option<Result<Expression, String>> of run_builtin
Folded(expression) ==
    [some |-> TRUE, ok |-> TRUE, expression |-> expression, reason |-> <<>>]

FoldedErr(reason) == [some |-> TRUE, ok |-> FALSE, expression |-> Parameter, reason |-> reason]

NotFolded == [some |-> FALSE, ok |-> FALSE, expression |-> Parameter, reason |-> <<>>]

\* fields.iter().find(|(k, _)| k.semantically_equals(key_id, visible).unwrap_or(false)):
\* the index of the first such field, 0 for none
FoundField(fields, key_id, visible) ==
    LET hits == {i \in 1..(Len(fields) \div 2) :
                    /\ semantically_equals(fields[2 * i - 1], key_id, visible).some
                    /\ semantically_equals(fields[2 * i - 1], key_id, visible).value}
    IN IF hits = {} THEN 0 ELSE CHOOSE i \in hits : \A j \in hits : i <= j

\* run_builtin for BuiltinFunction::Equals
run_builtin_equals(arguments, visible) ==
    IF Len(arguments) # 2 THEN FoldedErr(<<"wrong number of arguments">>)
    ELSE IF arguments[1] = arguments[2] THEN Folded(MirSymbol("True"))
    ELSE IF ~semantically_equals(arguments[1], arguments[2], visible).some THEN NotFolded
    ELSE Folded(MirSymbol(
             IF semantically_equals(arguments[1], arguments[2], visible).value
             THEN "True" ELSE "False"))

\* run_builtin for BuiltinFunction::StructGet
run_builtin_struct_get(arguments, visible) ==
    IF Len(arguments) # 2 THEN FoldedErr(<<"wrong number of arguments">>)
    ELSE IF visible[arguments[1]].kind # "Struct" THEN NotFolded
    ELSE LET fields == visible[arguments[1]].ids
             key_id == arguments[2]
         IN IF /\ \A i \in 1..(Len(fields) \div 2) :
                      is_constant(visible[fields[2 * i - 1]], visible)
               /\ is_constant(visible[key_id], visible)
            THEN IF FoundField(fields, key_id, visible) # 0
                 THEN Folded(MirReference(fields[2 * FoundField(fields, key_id, visible)]))
                 ELSE FoldedErr(<<"Struct access will panic because key",
                                  ToString(key_id), "isn't in there.">>)
            ELSE NotFolded

\* Mir::run_builtin
run_builtin(builtin, arguments, visible) ==
    CASE builtin = "Equals" -> run_builtin_equals(arguments, visible)
      [] builtin = "StructGet" -> run_builtin_struct_get(arguments, visible)
      [] OTHER -> NotFolded

\* what fold_constants makes of one expression: [expression, id_generator]
fold_expression(expression, visible, id_generator) ==
    CASE expression.kind = "Call" /\ visible[CallFunction(expression)].kind = "Builtin" ->
             LET result == run_builtin(visible[CallFunction(expression)].name,
                                       CallArguments(expression), visible)
             IN IF ~result.some
                THEN [expression |-> expression, id_generator |-> id_generator]
                ELSE IF result.ok
                THEN [expression |-> result.expression, id_generator |-> id_generator]
                ELSE [expression |-> MirMultiple(
                          <<Defined(id_generator, MirText(result.reason)),
                            Defined(id_generator + 1,
                                    MirPanic(id_generator, CallResponsible(expression)))>>),
                      id_generator |-> id_generator + 2]
      [] expression.kind = "Needs" /\ visible[expression.ids[1]].kind = "Symbol" ->
             [expression |->
                  CASE visible[expression.ids[1]].name = "True" -> MirSymbol("Nothing")
                    [] visible[expression.ids[1]].name = "False" ->
                           MirPanic(expression.ids[2], expression.ids[3])
                    [] OTHER -> expression,
              id_generator |-> id_generator]
      [] OTHER -> [expression |-> expression, id_generator |-> id_generator]

RECURSIVE fold_body(_, _, _, _)
\* Body::visit with the closure of fold_constants, from the i-th expression on:
\* [body, id_generator]
fold_body(body, i, visible, id_generator) ==
    IF i > Len(body) THEN [body |-> body, id_generator |-> id_generator]
    ELSE LET expression == body[i].expression
             inner == fold_body(expression.body, 1,
                                IF expression.kind = "Lambda"
                                THEN VisibleWithParameters(visible, expression.ids)
                                ELSE visible,
                                id_generator)
             folded == IF expression.kind \in {"Lambda", "Multiple"}
                       THEN [expression |-> [expression EXCEPT !.body = inner.body],
                             id_generator |-> inner.id_generator]
                       ELSE fold_expression(expression, visible, id_generator)
         IN fold_body([body EXCEPT ![i].expression = folded.expression], i + 1,
                      VisibleWith(visible, body[i].id, folded.expression),
                      folded.id_generator)

\* Mir::fold_constants
fold_constants(mir) ==
    [mir EXCEPT !.body = fold_body(mir.body, 1, EmptyMap, mir.id_generator).body,
                !.id_generator = fold_body(mir.body, 1, EmptyMap, mir.id_generator).id_generator]

\* ------------------------------------------------- running a MIR program
\* The run of a body: every expression in turn makes its value on the heap, as
\* the instructions it is lowered to do; env holds the address of the value of
\* every id that was run, value the address of the last one.

RunStart ==
    [heap |-> HeapDefault, env |-> EmptyMap, status |-> "Running", value |-> 0,
     reason |-> <<>>, responsible |-> ""]

\* the value of the expression `id` is at the address
Bound(st, h, id, address) ==
    [st EXCEPT !.heap = h, !.env = (id :> address) @@ @, !.value = address]

BoundCreated(st, id, created) == Bound(st, created.heap, id, created.address)

Panicked(st, h, reason, responsible) ==
    [st EXCEPT !.heap = h, !.status = "Panicked", !.reason = reason,
               !.responsible = responsible]

Aborted(st) == [st EXCEPT !.status = "Aborted"]

RECURSIVE dup_all(_, _)
\* PushFromStack of each of the ids
dup_all(h, addresses) ==
    IF addresses = <<>> THEN h
    ELSE dup_all(dup(h, Head(addresses)), Tail(addresses))

AddressesOf(st, ids) == [i \in 1..Len(ids) |-> st.env[ids[i]]]

\* the fiber after the call of a builtin function, as the run sees it
AfterBuiltin(st, id, after) ==
    IF after.heap.aborted THEN Aborted(st)
    ELSE IF after.status.kind = "Panicked"
    THEN Panicked(st, after.heap, after.status.reason, after.status.responsible)
    ELSE IF after.status.kind = "Running" /\ after.data_stack # <<>>
    THEN Bound(st, after.heap, id, after.data_stack[Len(after.data_stack)])
    ELSE Aborted(st)

\* needs: Nothing for True, a panic with the reason for False
RunNeeds(st, id, condition, reason, responsible) ==
    IF condition.kind = "Tag" /\ condition.text = "True"
    THEN BoundCreated(st, id, create_nothing(st.heap))
    ELSE IF condition.kind = "Tag" /\ condition.text = "False"
    THEN Panicked(st, st.heap, reason.text, responsible.text)
    ELSE Panicked(st, st.heap, <<"needs expects True or False as a condition.">>,
                  responsible.text)

RECURSIVE RunBody(_, _, _)
RECURSIVE run_expression(_, _, _)
\* compile_expression and the run of its instructions
run_expression(st, id, expression) ==
    CASE expression.kind = "Int" -> BoundCreated(st, id, create_int(st.heap, expression.num))
      [] expression.kind = "Text" -> BoundCreated(st, id, create_text(st.heap, expression.text))
      [] expression.kind = "Symbol" ->
             BoundCreated(st, id, create_symbol(st.heap, expression.name))
      [] expression.kind = "HirId" ->
             BoundCreated(st, id, create(st.heap, HirId(expression.name)))
      [] expression.kind = "Builtin" ->
             BoundCreated(st, id, create(st.heap,
                                         Data("Builtin", 0, expression.name, <<>>, <<>>)))
      [] expression.kind = "Reference" ->
             Bound(st, dup(st.heap, st.env[expression.ids[1]]), id,
                   st.env[expression.ids[1]])
      [] expression.kind \in {"List", "Struct"} ->
             BoundCreated(st, id,
                 create(dup_all(st.heap, AddressesOf(st, expression.ids)),
                        Data(expression.kind, 0, <<>>, AddressesOf(st, expression.ids), <<>>)))
      [] expression.kind = "Lambda" ->
             BoundCreated(st, id,
                 create(st.heap, Data("Closure", expression.num, <<>>, <<>>,
                                      <<[expression |-> expression, env |-> st.env]>>)))
      [] expression.kind = "Call" ->
             LET function == get(st.heap, st.env[CallFunction(expression)])
                 arguments == AddressesOf(st, CallArguments(expression))
                 responsible == st.env[CallResponsible(expression)]
             IN IF function.kind = "Builtin"
                THEN AfterBuiltin(st, id,
                         run_builtin_function(
                             [heap |-> dup_all(st.heap, arguments), data_stack |-> <<>>,
                              call_stack |-> <<>>, status |-> Status("Running")],
                             function.text, arguments, responsible, TRUE))
                ELSE IF function.kind = "Closure" /\ function.num = Len(arguments)
                THEN LET lambda == function.body[1].expression
                         called == RunBody(
                             [st EXCEPT !.env =
                                  [p \in 1..Len(lambda.ids) |->
                                      (arguments \o <<responsible>>)[p]]
                                  @@ function.body[1].env @@ st.env],
                             lambda.body, 1)
                     IN IF called.status # "Running" THEN called
                        ELSE Bound([called EXCEPT !.env = st.env], called.heap, id,
                                   called.value)
                ELSE Panicked(st, st.heap, <<"A function was called with the wrong number of arguments.">>,
                              get_hir_id(st.heap, responsible))
      [] expression.kind = "Panic" ->
             Panicked(st, st.heap, get(st.heap, st.env[expression.ids[1]]).text,
                      get_hir_id(st.heap, st.env[expression.ids[2]]))
      [] expression.kind = "Needs" ->
             RunNeeds(st, id, get(st.heap, st.env[expression.ids[1]]),
                      get(st.heap, st.env[expression.ids[2]]),
                      get(st.heap, st.env[expression.ids[3]]))
      [] expression.kind = "Multiple" ->
             LET inner == RunBody(st, expression.body, 1)
             IN IF inner.status # "Running" THEN inner
                ELSE Bound(inner, inner.heap, id, inner.value)
      [] OTHER -> Aborted(st)

RunBody(st, body, i) ==
    IF i > Len(body) \/ st.status # "Running" THEN st
    ELSE RunBody(run_expression(st, body[i].id, body[i].expression), body, i + 1)

RECURSIVE ValueAt(_, _)
\* a value on the heap, without its addresses
ValueAt(h, address) ==
    LET object == get(h, address)
    IN [kind |-> object.kind, num |-> object.num,
        text |-> CASE object.kind = "Text" -> object.text
                   [] object.kind \in {"Tag", "HirId", "Builtin"} -> <<object.text>>
                   [] OTHER -> <<>>,
        items |-> [i \in 1..Len(object.children) |-> ValueAt(h, object.children[i])]]

NoValue == [kind |-> "None", num |-> 0, text |-> <<>>, items |-> <<>>]

\* what running the program ends with: its value or its panic
Outcome(st) ==
    [status |-> st.status,
     value |-> IF st.status = "Running" /\ st.value # 0
               THEN ValueAt(st.heap, st.value) ELSE NoValue,
     reason |-> st.reason,
     responsible |-> st.responsible]

NoOutcome == [status |-> "None", value |-> NoValue, reason |-> <<>>, responsible |-> ""]

Run(mir) == Outcome(RunBody(RunStart, mir.body, 1))

\* --------------------------------------------- C20: constant folding, run
\* Programs that end with one call of a builtin function or one needs on the
\* values defined before it.

MaxArguments == 3

Prelude ==
    << Defined(1, MirInt(0)),
       Defined(2, MirInt(1)),
       Defined(3, MirText(<<"a">>)),
       Defined(4, MirSymbol("True")),
       Defined(5, MirSymbol("False")),
       Defined(6, MirHirId("main")),
       Defined(7, MirStruct(<<1, 3, 2, 4>>)),
       Defined(8, MirReference(2)),
       Defined(9, MirBuiltin("IntAdd")),
       Defined(10, MirCall(9, <<1, 2>>, 6)) >>

\* the ids a call is given: constants, a struct, a reference and the result of
\* a call, which only the run knows
ArgumentIds == {1, 2, 3, 5, 7, 8, 10}

FoldedBuiltins == {"Equals", "StructGet", "StructHasKey"}

LastExpressions ==
    {MirCall(11, arguments, 6) :
        arguments \in UNION {[1..n -> ArgumentIds] : n \in 1..MaxArguments}}
    \cup {MirNeeds(condition, 3, 6) : condition \in {1, 4, 5, 10}}

FoldingPrograms ==
    {[body |-> Prelude \o <<Defined(11, MirBuiltin(builtin)), Defined(12, last_expression)>>,
      id_generator |-> 13] :
        builtin \in FoldedBuiltins, last_expression \in LastExpressions}

FoldingInit ==
    /\ heap = HeapDefault
    /\ data_stack = <<>>
    /\ other = HeapDefault
    /\ address_map = EmptyMap
    /\ clone_roots = <<>>
    /\ clone_impl = "old"
    /\ last = [op |-> "init", address |-> 0]
    /\ fiber = NoFiber
    /\ vm = NoVm
    /\ compiler \in [stage : {"Mir"}, mir : FoldingPrograms, unoptimized : {NoOutcome},
                     optimized : {NoOutcome}]

\* the program is run as it is
RunUnoptimized ==
    /\ compiler.stage = "Mir"
    /\ compiler' = [compiler EXCEPT !.stage = "Ran", !.unoptimized = Run(compiler.mir)]
    /\ UNCHANGED machine

\* mir.fold_constants()
FoldConstants ==
    /\ compiler.stage = "Ran"
    /\ compiler' = [compiler EXCEPT !.stage = "Folded", !.mir = fold_constants(@)]
    /\ UNCHANGED machine

\* the folded program is run
RunOptimized ==
    /\ compiler.stage = "Folded"
    /\ compiler' = [compiler EXCEPT !.stage = "Done", !.optimized = Run(compiler.mir)]
    /\ UNCHANGED machine

FoldingNext == RunUnoptimized \/ FoldConstants \/ RunOptimized

\* Every program is run, folded and run again.
SpecFolding == FoldingInit /\ [][FoldingNext]_vars

\* The two reasons are the same text.
SameReason(a, b) ==
    IF a = <<>> \/ b = <<>> THEN a = b ELSE a[1] = b[1] /\ a = b

\* The two runs end alike but for the text of the reason of a panic.
SameButReason(a, b) ==
    /\ a.status = b.status
    /\ a.value = b.value
    /\ a.responsible = b.responsible

\* the last expression of the program
LastExpression == compiler.mir.body[Len(compiler.mir.body)].expression

\* C20: the optimized program ends with the same value or the same panic, with
\* the same reason and the same responsible, as the unoptimized program; a
\* builtin call or needs that constant folding replaced became exactly the
\* value or panic of the call at run time.
C20_FoldingKeepsTheOutcome ==
    compiler.stage = "Done" =>
        /\ compiler.unoptimized.status \in {"Running", "Panicked"}
        /\ SameButReason(compiler.unoptimized, compiler.optimized)
        /\ SameReason(compiler.unoptimized.reason, compiler.optimized.reason)

\* The same, but for the text of the reason of a panic.
FoldingKeepsTheOutcomeButTheReason ==
    compiler.stage = "Done" =>
        /\ compiler.unoptimized.status \in {"Running", "Panicked"}
        /\ SameButReason(compiler.unoptimized, compiler.optimized)

\* A StructGet folded into a panic has run, and the run of the call had
\* panicked with another reason.
C20_FoldedPanicHasAnotherReason ==
    /\ compiler.stage = "Done"
    /\ LastExpression.kind = "Multiple"
    /\ compiler.unoptimized.status = "Panicked"
    /\ compiler.optimized.status = "Panicked"
    /\ compiler.unoptimized.reason[1] = "The struct does not contain the key"
    /\ compiler.optimized.reason[1] = "Struct access will panic because key"

\* A call folded into a value has run.
FoldedValueHasRun ==
    /\ compiler.stage = "Done"
    /\ LastExpression.kind \in {"Symbol", "Reference"}
    /\ compiler.optimized.status = "Running"

\* ------------------------------------------------- the passes of the optimizer
\* The passes rewrite bodies; the ids they name stay unique in the whole MIR.

Sub(sub, id) == IF id \in DOMAIN sub THEN sub[id] ELSE id

RECURSIVE RenamedBody(_, _, _)
\* the body with the ids replaced as sub says: the ids expressions name, and
\* with `definitions` also the ids that are defined
RenamedBody(body, sub, definitions) ==
    [i \in 1..Len(body) |->
        Defined(IF definitions THEN Sub(sub, body[i].id) ELSE body[i].id,
                [body[i].expression EXCEPT
                    !.ids = [k \in 1..Len(body[i].expression.ids) |->
                                IF body[i].expression.kind = "Lambda" /\ ~definitions
                                THEN body[i].expression.ids[k]
                                ELSE Sub(sub, body[i].expression.ids[k])],
                    !.body = RenamedBody(body[i].expression.body, sub, definitions)])]

\* the parameters of a lambda, the responsible parameter among them
ParametersOf(expression) ==
    IF expression.kind = "Lambda" THEN SeqRange(expression.ids) ELSE {}

RECURSIVE DefinedIn(_)
\* the ids a body defines, at any depth
DefinedIn(body) ==
    UNION {{body[i].id} \cup ParametersOf(body[i].expression)
               \cup DefinedIn(body[i].expression.body) : i \in 1..Len(body)}

RECURSIVE UsedIn(_)
\* the ids an expression names, at any depth
UsedIn(expression) ==
    (IF expression.kind = "Lambda" THEN {} ELSE SeqRange(expression.ids))
        \cup UNION {UsedIn(expression.body[i].expression) : i \in 1..Len(expression.body)}

RECURSIVE UseCount(_, _)
\* how often the bodies name the id
UseCount(body, id) ==
    IF body = <<>> THEN 0
    ELSE (IF Head(body).expression.kind = "Lambda" THEN 0
          ELSE Cardinality({k \in 1..Len(Head(body).expression.ids) :
                               Head(body).expression.ids[k] = id}))
         + UseCount(Head(body).expression.body, id)
         + UseCount(Tail(body), id)

RECURSIVE Complexity(_)
\* Body::complexity: the number of expressions, at any depth
Complexity(body) ==
    IF body = <<>> THEN 0
    ELSE 1 + Complexity(Head(body).expression.body) + Complexity(Tail(body))

RECURSIVE ContainsKind(_, _)
\* the body has an expression of one of the kinds, at any depth
ContainsKind(body, kinds) ==
    \E i \in 1..Len(body) :
        \/ body[i].expression.kind \in kinds
        \/ ContainsKind(body[i].expression.body, kinds)

RECURSIVE Pure(_)
\* the expression can neither panic nor do anything but make its value
Pure(expression) ==
    /\ expression.kind \in {"Int", "Text", "Symbol", "Builtin", "HirId", "Reference",
                            "List", "Struct", "Lambda", "Multiple"}
    /\ expression.kind = "Multiple" =>
           \A i \in 1..Len(expression.body) : Pure(expression.body[i].expression)

\* new ids for the ids of the set, in their order
Fresh(defined, id_generator) ==
    [d \in defined |-> id_generator + Cardinality({x \in defined : x < d})]

\* the body with new ids for all it defines
WithFreshIds(body, id_generator) ==
    RenamedBody(body, Fresh(DefinedIn(body), id_generator), TRUE)

\* a text and the panic with it as the reason: what a call that is known to
\* fail becomes
PanicBody(reason, responsible, id_generator) ==
    MirMultiple(<<Defined(id_generator, MirText(reason)),
                  Defined(id_generator + 1, MirPanic(id_generator, responsible))>>)

\* --- multiple_flattening

RECURSIVE flatten_body(_)
\* $0 = Multiple { $1 = ..; $2 = .. } becomes $1 = ..; $2 = ..; $0 = $2
flatten_body(body) ==
    IF body = <<>> THEN <<>>
    ELSE LET inner == flatten_body(Head(body).expression.body)
         IN (IF Head(body).expression.kind = "Multiple" /\ inner # <<>>
             THEN Append(inner, Defined(Head(body).id,
                                        MirReference(inner[Len(inner)].id)))
             ELSE <<Defined(Head(body).id, [Head(body).expression EXCEPT !.body = inner])>>)
            \o flatten_body(Tail(body))

flatten_multiples(mir) == [mir EXCEPT !.body = flatten_body(@)]

\* --- reference_following

RECURSIVE follow_body(_, _, _)
\* x = Reference y: what comes after names y instead of x
follow_body(body, i, sub) ==
    IF i > Len(body) THEN body
    ELSE LET expression == body[i].expression
             followed == [expression EXCEPT
                             !.ids = [k \in 1..Len(expression.ids) |->
                                         IF expression.kind = "Lambda"
                                         THEN expression.ids[k]
                                         ELSE Sub(sub, expression.ids[k])],
                             !.body = follow_body(expression.body, 1, sub)]
         IN follow_body([body EXCEPT ![i].expression = followed], i + 1,
                        IF followed.kind = "Reference"
                        THEN (body[i].id :> followed.ids[1]) @@ sub
                        ELSE sub)

follow_references(mir) == [mir EXCEPT !.body = follow_body(@, 1, EmptyMap)]

RECURSIVE without_return_references(_)
\* a body that ends with a reference to the expression before it ends with that
\* expression
without_return_references(body) ==
    LET inner == [i \in 1..Len(body) |->
                     Defined(body[i].id,
                             [body[i].expression EXCEPT
                                 !.body = without_return_references(@)])]
    IN IF /\ Len(inner) >= 2
          /\ inner[Len(inner)].expression.kind = "Reference"
          /\ inner[Len(inner)].expression.ids[1] = inner[Len(inner) - 1].id
       THEN SubSeq(inner, 1, Len(inner) - 1)
       ELSE inner

remove_redundant_return_references(mir) ==
    [mir EXCEPT !.body = without_return_references(@)]

\* --- tree_shaking, cleanup

ConstantKinds == {"Int", "Text", "Symbol", "Builtin", "HirId"}

RECURSIVE shake_body(_, _, _, _)
\* from the i-th expression backwards: an expression that nothing after it
\* names and that is no return value goes, if it is pure (tree shaking) or a
\* constant (cleanup). `used` are the ids named so far, `kept` what stays.
shake_body(body, i, used, only_constants) ==
    IF i = 0 THEN <<>>
    ELSE LET expression == body[i].expression
             dead == /\ i < Len(body)
                     /\ body[i].id \notin used
                     /\ IF only_constants THEN expression.kind \in ConstantKinds
                        ELSE Pure(expression)
             shaken == [expression EXCEPT
                           !.body = shake_body(@, Len(@), {}, only_constants)]
         IN IF dead THEN shake_body(body, i - 1, used, only_constants)
            ELSE Append(shake_body(body, i - 1, used \cup UsedIn(shaken), only_constants),
                        Defined(body[i].id, shaken))

tree_shake(mir) == [mir EXCEPT !.body = shake_body(@, Len(@), {}, FALSE)]

\* Mir::cleanup: the constants nothing names go
cleanup(mir) == [mir EXCEPT !.body = shake_body(@, Len(@), {}, TRUE)]

\* --- inlining, module_folding

MaxTinyComplexity == 1

\* the call names a lambda that takes as many arguments as it is given
CallsLambda(expression, visible) ==
    /\ expression.kind = "Call"
    /\ visible[CallFunction(expression)].kind = "Lambda"
    /\ visible[CallFunction(expression)].num = Len(CallArguments(expression))

\* the body of the lambda for the call: the parameters are the arguments, the
\* responsible parameter is the responsible of the call, what the body defines
\* gets new ids
inlined(expression, lambda, id_generator) ==
    LET actual == CallArguments(expression) \o <<CallResponsible(expression)>>
        defined == DefinedIn(lambda.body)
        sub == [d \in defined \cup SeqRange(lambda.ids) |->
                   IF d \in SeqRange(lambda.ids)
                   THEN actual[CHOOSE k \in 1..Len(lambda.ids) : lambda.ids[k] = d]
                   ELSE Fresh(defined, id_generator)[d]]
    IN [expression |-> MirMultiple(RenamedBody(lambda.body, sub, TRUE)),
        id_generator |-> id_generator + Cardinality(defined)]

\* which lambdas a pass inlines
ShouldInline(pass, function, lambda, whole) ==
    CASE pass = "inline_functions_containing_use" ->
             ContainsKind(lambda.body, {"UseModule"})
      [] pass = "inline_functions_only_called_once" -> UseCount(whole, function) = 1
      [] pass = "inline_tiny_functions" -> Complexity(lambda.body) <= MaxTinyComplexity
      [] OTHER -> FALSE

\* The one module there is to import, optimized.
ModuleName == <<"module">>

ModuleBody == <<Defined(1, MirInt(7)), Defined(2, MirList(<<1, 1>>))>>

\* what a pass that visits every expression makes of one: [expression, id_generator]
visit_expression(pass, expression, visible, id_generator, whole) ==
    CASE pass = "fold_modules" /\ expression.kind = "UseModule"
           /\ visible[expression.ids[1]].kind = "Text" ->
             [expression |->
                  IF visible[expression.ids[1]].text = ModuleName
                  THEN MirMultiple(WithFreshIds(ModuleBody, id_generator))
                  ELSE PanicBody(<<"The module doesn't exist.">>, expression.ids[2],
                                 id_generator),
              id_generator |-> id_generator + 2]
      [] pass = "replace_remaining_uses_with_panics" /\ expression.kind = "UseModule" ->
             [expression |-> PanicBody(<<"The use can't be resolved.">>, expression.ids[2],
                                       id_generator),
              id_generator |-> id_generator + 2]
      [] /\ CallsLambda(expression, visible)
         /\ ShouldInline(pass, CallFunction(expression),
                         visible[CallFunction(expression)], whole) ->
             inlined(expression, visible[CallFunction(expression)], id_generator)
      [] OTHER -> [expression |-> expression, id_generator |-> id_generator]

RECURSIVE visit_body(_, _, _, _, _, _)
\* Body::visit for these passes, from the i-th expression on: [body, id_generator]
visit_body(pass, body, i, visible, id_generator, whole) ==
    IF i > Len(body) THEN [body |-> body, id_generator |-> id_generator]
    ELSE LET expression == body[i].expression
             inner == visit_body(pass, expression.body, 1,
                                 IF expression.kind = "Lambda"
                                 THEN VisibleWithParameters(visible, expression.ids)
                                 ELSE visible,
                                 id_generator, whole)
             visited == IF expression.kind \in {"Lambda", "Multiple"}
                        THEN [expression |-> [expression EXCEPT !.body = inner.body],
                              id_generator |-> inner.id_generator]
                        ELSE visit_expression(pass, expression, visible, id_generator,
                                              whole)
         IN visit_body(pass, [body EXCEPT ![i].expression = visited.expression], i + 1,
                       VisibleWith(visible, body[i].id, visited.expression),
                       visited.id_generator, whole)

visited_by(pass, mir) ==
    [mir EXCEPT !.body = visit_body(pass, mir.body, 1, EmptyMap, mir.id_generator,
                                    mir.body).body,
                !.id_generator = visit_body(pass, mir.body, 1, EmptyMap, mir.id_generator,
                                            mir.body).id_generator]

\* --- constant_lifting

RECURSIVE lift_split(_, _, _)
\* the constants of a lambda's body that can go in front of the lambda: all but
\* the return value, lists and structs only of constants from outside.
\* `outside` are the ids of the constants that are, or now get, outside.
lift_split(body, i, outside) ==
    IF i > Len(body) THEN [lifted |-> <<>>, kept |-> <<>>]
    ELSE LET expression == body[i].expression
             liftable == /\ i < Len(body)
                         /\ \/ expression.kind \in ConstantKinds
                            \/ /\ expression.kind \in {"List", "Struct"}
                               /\ SeqRange(expression.ids) \subseteq outside
             rest == lift_split(body, i + 1,
                                IF liftable THEN outside \cup {body[i].id} ELSE outside)
         IN IF liftable
            THEN [lifted |-> <<body[i]>> \o rest.lifted, kept |-> rest.kept]
            ELSE [lifted |-> rest.lifted, kept |-> <<body[i]>> \o rest.kept]

RECURSIVE lift_body(_, _, _)
\* the constants of every lambda of the body go in front of it
lift_body(body, i, outside) ==
    IF i > Len(body) THEN <<>>
    ELSE LET expression == body[i].expression
             split == lift_split(lift_body(expression.body, 1, outside), 1, outside)
             now_outside == outside \cup {split.lifted[k].id : k \in 1..Len(split.lifted)}
         IN IF expression.kind = "Lambda"
            THEN split.lifted
                 \o <<Defined(body[i].id, [expression EXCEPT !.body = split.kept])>>
                 \o lift_body(body, i + 1, now_outside)
            ELSE <<Defined(body[i].id,
                           [expression EXCEPT !.body = lift_body(@, 1, outside)])>>
                 \o lift_body(body, i + 1,
                              IF expression.kind \in ConstantKinds
                                 \/ (expression.kind \in {"List", "Struct"}
                                     /\ SeqRange(expression.ids) \subseteq outside)
                              THEN outside \cup {body[i].id} ELSE outside)

lift_constants(mir) == [mir EXCEPT !.body = lift_body(@, 1, {})]

\* --- common_subtree_elimination

RECURSIVE cse_body(_, _, _)
\* a constant, list or struct that is the same as one defined before becomes a
\* reference to that one
cse_body(body, i, seen) ==
    IF i > Len(body) THEN body
    ELSE LET expression == [body[i].expression EXCEPT !.body = cse_body(@, 1, seen)]
             shareable == expression.kind \in ConstantKinds \cup {"List", "Struct"}
             same == {s \in seen : s.expression = expression}
             first == CHOOSE s \in same : \A t \in same : s.id <= t.id
         IN IF shareable /\ same # {}
            THEN cse_body([body EXCEPT ![i].expression = MirReference(first.id)],
                          i + 1, seen)
            ELSE cse_body([body EXCEPT ![i].expression = expression], i + 1,
                          IF shareable THEN seen \cup {Defined(body[i].id, expression)}
                          ELSE seen)

eliminate_common_subtrees(mir) == [mir EXCEPT !.body = cse_body(@, 1, {})]

\* --- the structural hash

RECURSIVE Hashed(_)
\* what Mir::hash feeds the hasher: every expression of the body in its order,
\* those of the bodies inside after the expression that holds them
Hashed(body) ==
    IF body = <<>> THEN <<>>
    ELSE <<[id |-> Head(body).id, kind |-> Head(body).expression.kind,
            num |-> Head(body).expression.num, name |-> Head(body).expression.name,
            text |-> Head(body).expression.text, ids |-> Head(body).expression.ids,
            size |-> Len(Head(body).expression.body)]>>
         \o Hashed(Head(body).expression.body) \o Hashed(Tail(body))

\* Mir::do_hash. FxHasher gives equal input the equal hash; that unequal inputs
\* of this size get unequal hashes is taken for granted.
do_hash(mir) == Hashed(mir.body)

\* ---------------------------------------------------------------------------
\* the optimizer

MaxIterations == 4
MaxSlots == 3
FirstFreshId == 50

NecessaryPasses ==
    <<"inline_functions_containing_use", "flatten_multiples", "follow_references">>

HeavyPassesWithoutFlattening ==
    <<"follow_references", "remove_redundant_return_references", "tree_shake",
      "fold_constants", "inline_functions_only_called_once", "inline_tiny_functions",
      "lift_constants", "eliminate_common_subtrees">>

HeavyPasses ==
    <<"follow_references", "remove_redundant_return_references", "tree_shake",
      "fold_constants", "inline_functions_only_called_once", "inline_tiny_functions",
      "lift_constants", "eliminate_common_subtrees", "flatten_multiples">>

optimization(pass, mir) ==
    CASE pass = "flatten_multiples" -> flatten_multiples(mir)
      [] pass = "follow_references" -> follow_references(mir)
      [] pass = "remove_redundant_return_references" ->
             remove_redundant_return_references(mir)
      [] pass = "tree_shake" -> tree_shake(mir)
      [] pass = "fold_constants" -> fold_constants(mir)
      [] pass = "lift_constants" -> lift_constants(mir)
      [] pass = "eliminate_common_subtrees" -> eliminate_common_subtrees(mir)
      [] OTHER -> visited_by(pass, mir)

checked_optimization(mir, pass) == optimization(pass, cleanup(mir))

\* mir_to_lir panics on a Multiple and on a UseModule, also inside a lambda
LoweringPanics(mir) == ContainsKind(mir.body, {"Multiple", "UseModule"})

\* --- the programs that get optimized

OptimizerPrelude ==
    <<Defined(1, MirHirId("main")), Defined(2, MirBuiltin("Equals")),
      Defined(3, MirBuiltin("StructGet")), Defined(4, MirText(ModuleName)),
      Defined(5, MirText(<<"other">>))>>

\* the lambdas of the slot with the ids from b on
SlotLambdas(b) ==
    {MirLambda(<<b + 1>>, b + 2, body) : body \in
        {<<Defined(b + 3, MirReference(b + 1))>>,
         <<Defined(b + 3, MirInt(0))>>,
         <<Defined(b + 3, MirInt(1)),
           Defined(b + 4, MirCall(2, <<b + 1, b + 3>>, b + 2))>>,
         <<Defined(b + 3, MirUseModule(4, b + 2))>>,
         <<Defined(b + 3, MirUseModule(b + 1, b + 2))>>,
         <<Defined(b + 3, MirCall(b + 1, <<b + 1>>, b + 2))>>}}

\* what the slot can hold when the slots `earlier` are before it
SlotExpressions(b, earlier) ==
    {MirInt(0), MirUseModule(4, 1), MirUseModule(5, 1)}
    \cup SlotLambdas(b)
    \cup {MirReference(x) : x \in earlier}
    \cup {MirStruct(<<x, y>>) : x \in earlier, y \in earlier}
    \cup {MirCall(f, <<x, y>>, 1) : f \in {2, 3}, x \in earlier, y \in earlier}
    \cup {MirCall(x, <<y>>, 1) : x \in earlier, y \in earlier}

RECURSIVE SlotBodies(_)
\* the bodies of the first n slots
SlotBodies(n) ==
    IF n = 0 THEN {<<>>}
    ELSE {body \o <<Defined(10 * n, expression)>> :
            body \in SlotBodies(n - 1),
            expression \in SlotExpressions(10 * n, {10 * k : k \in 1..(n - 1)})}

OptimizerPrograms ==
    {[body |-> OptimizerPrelude \o body, id_generator |-> FirstFreshId] :
        body \in SlotBodies(MaxSlots)}

OptimizeInit ==
    /\ heap = HeapDefault
    /\ data_stack = <<>>
    /\ other = HeapDefault
    /\ address_map = EmptyMap
    /\ clone_roots = <<>>
    /\ clone_impl = "old"
    /\ last = [op |-> "init", address |-> 0]
    /\ fiber = NoFiber
    /\ vm = NoVm
    /\ compiler \in [stage : {"ModuleFolding"}, pc : {1}, mir : OptimizerPrograms,
                     hashcode_before : {<<>>}, iterations : {0}, left_loop : {FALSE},
                     had_use : {FALSE}, folded_to_multiple : {FALSE},
                     lowering : {"none"}]

\* one checked optimization of a driver loop; the first one of an iteration
\* comes after the hash was taken
LoopPass(stage, passes) ==
    /\ compiler.stage = stage
    /\ compiler.pc <= Len(passes)
    /\ LET optimized == checked_optimization(compiler.mir, passes[compiler.pc])
       IN compiler' =
              [compiler EXCEPT
                 !.mir = optimized,
                 !.pc = @ + 1,
                 !.left_loop = FALSE,
                 !.hashcode_before = IF compiler.pc = 1 THEN do_hash(compiler.mir) ELSE @,
                 !.had_use = @ \/ ContainsKind(compiler.mir.body, {"UseModule"}),
                 !.folded_to_multiple =
                     @ \/ /\ passes[compiler.pc] = "fold_constants"
                          /\ ContainsKind(optimized.body, {"Multiple"})
                          /\ ~ContainsKind(cleanup(compiler.mir).body, {"Multiple"})]
    /\ UNCHANGED machine

\* the end of an iteration: the loop is left when the hash is what it was
LoopEnd(stage, passes, next_stage) ==
    /\ compiler.stage = stage
    /\ compiler.pc > Len(passes)
    /\ IF do_hash(compiler.mir) = compiler.hashcode_before
       THEN compiler' = [compiler EXCEPT !.stage = next_stage, !.pc = 1,
                                         !.iterations = 0, !.left_loop = TRUE]
       ELSE /\ compiler.iterations < MaxIterations
            /\ compiler' = [compiler EXCEPT !.pc = 1, !.iterations = @ + 1]
    /\ UNCHANGED machine

NecessaryPass == LoopPass("ModuleFolding", NecessaryPasses)

NecessaryEnd == LoopEnd("ModuleFolding", NecessaryPasses, "FoldModules")

FoldModules ==
    /\ compiler.stage = "FoldModules"
    /\ compiler' = [compiler EXCEPT !.stage = "ReplaceUses", !.left_loop = FALSE,
                                    !.mir = checked_optimization(@, "fold_modules")]
    /\ UNCHANGED machine

ReplaceRemainingUses ==
    /\ compiler.stage = "ReplaceUses"
    /\ compiler' = [compiler EXCEPT
                      !.stage = "Heavy",
                      !.mir = visited_by("replace_remaining_uses_with_panics", @)]
    /\ UNCHANGED machine

HeavyPass == LoopPass("Heavy", HeavyPasses)

HeavyEnd == LoopEnd("Heavy", HeavyPasses, "Cleanup")

Cleanup ==
    /\ compiler.stage = "Cleanup"
    /\ compiler' = [compiler EXCEPT !.stage = "Optimized", !.left_loop = FALSE,
                                    !.mir = cleanup(@)]
    /\ UNCHANGED machine

\* the optimized MIR is lowered to the LIR
Lower ==
    /\ compiler.stage = "Optimized"
    /\ compiler' = [compiler EXCEPT
                      !.stage = "Lir",
                      !.lowering = IF LoweringPanics(compiler.mir) THEN "panic"
                                   ELSE "lir"]
    /\ UNCHANGED machine

OptimizeNext ==
    \/ NecessaryPass
    \/ NecessaryEnd
    \/ FoldModules
    \/ ReplaceRemainingUses
    \/ HeavyPass
    \/ HeavyEnd
    \/ Cleanup
    \/ Lower

\* Every program goes through optimize_obvious and is lowered.
SpecOptimize == OptimizeInit /\ [][OptimizeNext]_vars

\* C19: what optimize_obvious returns has no Multiple and no UseModule at any
\* depth, so that lowering it does not panic.
C19_NoMultipleNoUseModule ==
    /\ compiler.stage \in {"Optimized", "Lir"} =>
           ~ContainsKind(compiler.mir.body, {"Multiple", "UseModule"})
    /\ compiler.stage = "Lir" => compiler.lowering = "lir"

\* A program with a use was lowered after constant folding had put a Multiple
\* for a call that panics.
C19_LoweredAfterFoldingToMultiple ==
    /\ compiler.stage = "Lir"
    /\ compiler.had_use
    /\ compiler.folded_to_multiple

\* A driver loop is left only after an iteration that kept the hash.
LoopLeftWhenHashIsStable ==
    compiler.left_loop => do_hash(compiler.mir) = compiler.hashcode_before

\* An iteration changed the hash when the bound of iterations was used up.
IterationsUsedUp ==
    /\ compiler.stage = "Heavy"
    /\ compiler.pc > Len(HeavyPasses)
    /\ compiler.iterations = MaxIterations
    /\ do_hash(compiler.mir) # compiler.hashcode_before

\* ---------------------------------------------------------------------------
\* parsing: the RCST
\* compiler/src/compiler/string_to_rcst.rs, for the sources over RcstAlphabet. An
\* Rcst is [kind, text, value, children]; `text` is what a leaf was parsed from,
\* `value` the number of an Int.

MaxSource == 5

RcstAlphabet == {"a", "0", " ", "\n", "(", ")", ","}

Sources == UNION {[1..n -> RcstAlphabet] : n \in 0..MaxSource}

MEANINGFUL_PUNCTUATION == {"(", ")", "[", "]", ":", ",", "{", "}", "-", ">", "=", "."}

AsciiDigits == <<"0", "1", "2", "3", "4", "5", "6", "7", "8", "9">>

LowercaseLetters == {"a"}

UppercaseLetters == {"A"}

\* the value is computed once and handed on
With(value, Then(_)) == CHOOSE result \in {Then(it) : it \in {value}} : TRUE

Rcst(kind, text, value, rcsts) ==
    [kind |-> kind, text |-> text, value |-> value, children |-> rcsts]

\* the Whitespace, Newline, Comment or Error that the whitespace parsers return
Leaves(parts) == [i \in 1..Len(parts) |-> Rcst(parts[i].kind, parts[i].text, 0, <<>>)]

RcstError(error, unparsable_input) == Rcst(error, unparsable_input, 0, <<>>)

NotFound == [ok |-> FALSE, rest |-> <<>>, rcst |-> Rcst("None", <<>>, 0, <<>>)]

Found(rest, rcst) == [ok |-> TRUE, rest |-> rest, rcst |-> rcst]

\* fn literal, and the Rcst of the punctuation
literal(input, text, kind) ==
    IF StartsWith(input, text)
    THEN Found(Skip(input, Len(text)), Rcst(kind, text, 0, <<>>))
    ELSE NotFound

comma(input) == literal(input, <<",">>, "Comma")

colon(input) == literal(input, <<":">>, "Colon")

opening_parenthesis(input) == literal(input, <<"(">>, "OpeningParenthesis")

closing_parenthesis(input) == literal(input, <<")">>, "ClosingParenthesis")

closing_bracket(input) == literal(input, <<"]">>, "ClosingBracket")

closing_curly_brace(input) == literal(input, <<"}">>, "ClosingCurlyBrace")

arrow(input) == literal(input, <<"-", ">">>, "Arrow")

\* a.or_else(|| b).or_else(|| c)...
RECURSIVE FirstFound(_)
FirstFound(found) ==
    IF found = <<>> THEN NotFound
    ELSE IF Head(found).ok THEN Head(found) ELSE FirstFound(Tail(found))

\* fn word: the characters up to whitespace or meaningful punctuation
word(input) ==
    LET n == LeadingIn(input, RcstAlphabet \ ({" ", "\n"} \cup MEANINGFUL_PUNCTUATION))
    IN [ok |-> n > 0, rest |-> Skip(input, n), text |-> SubSeq(input, 1, n)]

RECURSIVE ParsedInt(_)
\* str::parse of digits
ParsedInt(digits) ==
    IF digits = <<>> THEN 0
    ELSE ParsedInt(Front(digits)) * 10
         + (CHOOSE d \in 0..9 : AsciiDigits[d + 1] = Last(digits))

RECURSIVE DisplayInt(_)
\* Display of an integer
DisplayInt(value) ==
    IF value < 10 THEN <<AsciiDigits[value + 1]>>
    ELSE DisplayInt(value \div 10) \o <<AsciiDigits[(value % 10) + 1]>>

AsciiAlphanumeric == SeqRange(AsciiDigits) \cup LowercaseLetters \cup UppercaseLetters

\* fn int
int(input) ==
    With(word(input), LAMBDA w :
        IF ~w.ok \/ w.text[1] \notin SeqRange(AsciiDigits) THEN NotFound
        ELSE IF SeqRange(w.text) \subseteq SeqRange(AsciiDigits)
             THEN Found(w.rest, Rcst("Int", w.text, ParsedInt(w.text), <<>>))
             ELSE Found(w.rest, RcstError("Error IntContainsNonDigits", w.text)))

\* fn symbol
symbol(input) ==
    With(word(input), LAMBDA w :
        IF ~w.ok \/ w.text[1] \notin UppercaseLetters THEN NotFound
        ELSE IF SeqRange(w.text) \subseteq AsciiAlphanumeric
             THEN Found(w.rest, Rcst("Symbol", w.text, 0, <<>>))
             ELSE Found(w.rest,
                        RcstError("Error SymbolContainsNonAlphanumericAscii", w.text)))

\* fn identifier
identifier(input) ==
    With(word(input), LAMBDA w :
        IF ~w.ok \/ w.text[1] \notin LowercaseLetters THEN NotFound
        ELSE IF SeqRange(w.text) \subseteq AsciiAlphanumeric
             THEN Found(w.rest, Rcst("Identifier", w.text, 0, <<>>))
             ELSE Found(w.rest,
                        RcstError("Error IdentifierContainsNonAlphanumericAscii",
                                  w.text)))

\* the word that is no expression
unexpected_characters(input) ==
    With(word(input), LAMBDA w :
        IF w.ok THEN Found(w.rest, RcstError("Error UnexpectedCharacters", w.text))
        ELSE NotFound)

\* Rcst::wrap_in_whitespace: the children of a TrailingWhitespace are the child
\* and then the whitespace
wrap_in_whitespace(rcst, whitespace) ==
    IF whitespace = <<>> THEN rcst
    ELSE IF rcst.kind = "TrailingWhitespace"
         THEN [rcst EXCEPT !.children = @ \o whitespace]
         ELSE Rcst("TrailingWhitespace", <<>>, 0, <<rcst>> \o whitespace)

\* last = expressions.pop(); expressions.push(last.wrap_in_whitespace(whitespace))
WrapLast(rcsts, whitespace) ==
    IF rcsts = <<>> THEN rcsts
    ELSE [rcsts EXCEPT ![Len(rcsts)] = wrap_in_whitespace(@, whitespace)]

ErrorKinds ==
    {"Error WeirdWhitespace", "Error WeirdWhitespaceInIndentation",
     "Error IntContainsNonDigits", "Error SymbolContainsNonAlphanumericAscii",
     "Error IdentifierContainsNonAlphanumericAscii", "Error UnexpectedCharacters",
     "Error ListItemMissesValue", "Error ListNotClosed",
     "Error OpeningParenthesisWithoutExpression", "Error ParenthesisNotClosed",
     "Error TooMuchWhitespace", "Error UnparsedRest"}

RECURSIVE is_multiline(_)
\* IsMultiline for Rcst: a Newline is, an Error is when its unparsable input
\* has a line feed, what has children is when one of them is
is_multiline(rcst) ==
    \/ rcst.kind = "Newline"
    \/ rcst.kind \in ErrorKinds /\ "\n" \in SeqRange(rcst.text)
    \/ \E i \in 1..Len(rcst.children) : is_multiline(rcst.children[i])

\* IsMultiline for Vec<Rcst>
AnyMultiline(rcsts) == \E i \in 1..Len(rcsts) : is_multiline(rcsts[i])

RECURSIVE split_outer_trailing_whitespace(_)
\* SplitOuterTrailingWhitespace for Rcst: the whitespace at the very end of the
\* Rcst, and the Rcst without it
split_outer_trailing_whitespace(rcst) ==
    IF rcst.kind = "TrailingWhitespace"
    THEN With(split_outer_trailing_whitespace(rcst.children[1]), LAMBDA inner :
             [whitespace |-> inner.whitespace \o Tail(rcst.children),
              rcst |-> inner.rcst])
    ELSE IF rcst.kind = "Call"
         THEN With(split_outer_trailing_whitespace(Last(rcst.children)), LAMBDA inner :
                  [whitespace |-> inner.whitespace,
                   rcst |-> [rcst EXCEPT !.children[Len(rcst.children)] = inner.rcst]])
         ELSE [whitespace |-> <<>>, rcst |-> rcst]

RECURSIVE render(_), RenderAll(_)
\* Display for Rcst: a leaf is the text it was parsed from, an Int is its
\* number, what has children is its children one after the other
render(rcst) ==
    IF rcst.kind = "Int" THEN DisplayInt(rcst.value)
    ELSE IF rcst.children = <<>> THEN rcst.text
    ELSE RenderAll(rcst.children)

RenderAll(rcsts) ==
    IF rcsts = <<>> THEN <<>> ELSE render(Head(rcsts)) \o RenderAll(Tail(rcsts))

RECURSIVE expression(_, _, _), run_loop(_, _, _, _), parse_call(_, _),
          list_loop(_, _), list(_, _), parenthesized(_, _)

\* fn expression. No source here has a double quote, an opening bracket, an
\* opening curly brace, an equals sign or a dot: text, struct_ and lambda return
\* None at their first literal, assignment at its assignment sign, and the loop
\* of struct accesses ends at once.
expression(input, indentation, allow_call_and_assignment) ==
    With(int(input), LAMBDA an_int :
    IF an_int.ok THEN an_int ELSE
    With(symbol(input), LAMBDA a_symbol :
    IF a_symbol.ok THEN a_symbol ELSE
    With(list(input, indentation), LAMBDA a_list :
    IF a_list.ok THEN a_list ELSE
    With(parenthesized(input, indentation), LAMBDA a_parenthesized :
    IF a_parenthesized.ok THEN a_parenthesized ELSE
    With(IF allow_call_and_assignment THEN parse_call(input, indentation) ELSE NotFound,
         LAMBDA a_call :
    IF a_call.ok THEN a_call ELSE
    With(identifier(input), LAMBDA an_identifier :
    IF an_identifier.ok THEN an_identifier ELSE unexpected_characters(input)))))))

\* the loop of run_of_expressions: [rest, expressions]
run_loop(input, expressions, indentation, has_multiline_whitespace) ==
    With(compiler_whitespaces_and_newlines(input, indentation + 1, TRUE), LAMBDA ws :
    With(has_multiline_whitespace \/ AnyMultiline(Leaves(ws.parts)), LAMBDA multiline :
    With(WrapLast(expressions, Leaves(ws.parts)), LAMBDA wrapped :
    With(expression(ws.input, IF multiline THEN indentation + 1 ELSE indentation,
                    multiline), LAMBDA expr :
    IF expr.ok
    THEN run_loop(expr.rest, Append(wrapped, expr.rcst), indentation, multiline)
    ELSE With(FirstFound(<<closing_parenthesis(ws.input), closing_bracket(ws.input),
                           closing_curly_brace(ws.input), arrow(ws.input)>>),
              LAMBDA fallback :
         IF fallback.ok /\ multiline
         THEN run_loop(fallback.rest, Append(wrapped, fallback.rcst), indentation,
                       multiline)
         ELSE [ok |-> TRUE, rest |-> ws.input, expressions |-> wrapped])))))

\* fn run_of_expressions
run_of_expressions(input, indentation) ==
    With(expression(input, indentation, FALSE), LAMBDA expr :
    IF expr.ok THEN run_loop(expr.rest, <<expr.rcst>>, indentation, FALSE)
    ELSE [ok |-> FALSE, rest |-> <<>>, expressions |-> <<>>])

\* fn call: the children of a Call are the receiver and then the arguments
parse_call(input, indentation) ==
    With(run_of_expressions(input, indentation), LAMBDA run :
    IF ~run.ok \/ Len(run.expressions) < 2 THEN NotFound
    ELSE With(split_outer_trailing_whitespace(Last(run.expressions)), LAMBDA split :
         Found(run.rest,
               wrap_in_whitespace(
                   Rcst("Call", <<>>, 0, Append(Front(run.expressions), split.rcst)),
                   split.whitespace))))

\* the block 'handleEmptyList of fn list, which gets the input of list
handle_empty_list(input, indentation, opening) ==
    With(compiler_whitespaces_and_newlines(input, indentation + 1, TRUE),
         LAMBDA leading :
    With(comma(leading.input), LAMBDA a_comma :
    IF ~a_comma.ok THEN NotFound ELSE
    With(compiler_whitespaces_and_newlines(a_comma.rest, indentation + 1, TRUE),
         LAMBDA trailing :
    With(closing_parenthesis(trailing.input), LAMBDA closing :
    IF ~closing.ok THEN NotFound
    ELSE Found(closing.rest,
               Rcst("List", <<>>, 0,
                    <<wrap_in_whitespace(opening, Leaves(leading.parts)),
                      wrap_in_whitespace(a_comma.rcst, Leaves(trailing.parts)),
                      closing.rcst>>))))))

\* the children of a ListItem are the value and then the comma, if there is one
ListItem(value, a_comma) ==
    Rcst("ListItem", <<>>, 0, IF a_comma.ok THEN <<value, a_comma.rcst>> ELSE <<value>>)

\* the loop of fn list. The whitespace before the value goes to the last item
\* (the opening parenthesis, when there is none), then the value, whitespace and
\* the comma are parsed; outer_input only moves when an item is pushed.
list_loop(st, indentation) ==
    With(compiler_whitespaces_and_newlines(st.outer_input, indentation + 1, TRUE),
         LAMBDA ws :
    With([st EXCEPT
            !.items_indentation =
                IF AnyMultiline(Leaves(ws.parts)) THEN indentation + 1 ELSE @,
            !.opening_parenthesis =
                IF st.items = <<>> THEN wrap_in_whitespace(@, Leaves(ws.parts)) ELSE @,
            !.items = WrapLast(@, Leaves(ws.parts))], LAMBDA before :
    With(expression(ws.input, before.items_indentation, TRUE), LAMBDA value :
    With(compiler_whitespaces_and_newlines(IF value.ok THEN value.rest ELSE ws.input,
                                           before.items_indentation + 1, TRUE),
         LAMBDA between :
    With(comma(between.input), LAMBDA a_comma :
    IF ~value.ok /\ ~a_comma.ok THEN before
    ELSE list_loop(
             [before EXCEPT
                !.items_indentation =
                    IF AnyMultiline(Leaves(between.parts)) THEN indentation + 1 ELSE @,
                !.has_at_least_one_comma = @ \/ a_comma.ok,
                !.outer_input = IF a_comma.ok THEN a_comma.rest ELSE between.input,
                !.items =
                    Append(@, ListItem(
                        wrap_in_whitespace(
                            IF value.ok THEN value.rcst
                            ELSE RcstError("Error ListItemMissesValue", <<>>),
                            Leaves(between.parts)),
                        a_comma))],
             indentation))))))

\* the end of fn list: whitespace and the closing parenthesis. The children of
\* a List are the opening parenthesis, the items and the closing parenthesis.
list_end(st, indentation) ==
    With(compiler_whitespaces_and_newlines(st.outer_input, indentation, TRUE),
         LAMBDA ws :
    With(closing_parenthesis(ws.input), LAMBDA closing :
    IF closing.ok
    THEN Found(closing.rest,
               Rcst("List", <<>>, 0,
                    <<IF st.items = <<>>
                      THEN wrap_in_whitespace(st.opening_parenthesis, Leaves(ws.parts))
                      ELSE st.opening_parenthesis>>
                    \o WrapLast(st.items, Leaves(ws.parts))
                    \o <<closing.rcst>>))
    ELSE Found(st.outer_input,
               Rcst("List", <<>>, 0,
                    <<st.opening_parenthesis>> \o st.items
                    \o <<RcstError("Error ListNotClosed", <<>>)>>))))

\* fn list
list(input, indentation) ==
    With(opening_parenthesis(input), LAMBDA opening :
    IF ~opening.ok THEN NotFound ELSE
    With(handle_empty_list(input, indentation, opening.rcst), LAMBDA empty :
    IF empty.ok THEN empty ELSE
    With(list_loop([outer_input |-> opening.rest,
                    opening_parenthesis |-> opening.rcst,
                    items |-> <<>>,
                    items_indentation |-> indentation,
                    has_at_least_one_comma |-> FALSE], indentation), LAMBDA st :
    IF ~st.has_at_least_one_comma THEN NotFound ELSE list_end(st, indentation))))

\* fn parenthesized
parenthesized(input, indentation) ==
    With(opening_parenthesis(input), LAMBDA opening :
    IF ~opening.ok THEN NotFound ELSE
    With(compiler_whitespaces_and_newlines(opening.rest, indentation + 1, TRUE),
         LAMBDA ws :
    With(expression(ws.input,
                    IF AnyMultiline(Leaves(ws.parts)) THEN indentation + 1
                    ELSE indentation, TRUE), LAMBDA inner :
    With(compiler_whitespaces_and_newlines(IF inner.ok THEN inner.rest ELSE ws.input,
                                           indentation, TRUE), LAMBDA after :
    With(closing_parenthesis(after.input), LAMBDA closing :
    Found(IF closing.ok THEN closing.rest ELSE after.input,
          Rcst("Parenthesized", <<>>, 0,
               <<wrap_in_whitespace(opening.rcst, Leaves(ws.parts)),
                 wrap_in_whitespace(
                     IF inner.ok THEN inner.rcst
                     ELSE RcstError("Error OpeningParenthesisWithoutExpression", <<>>),
                     Leaves(after.parts)),
                 IF closing.ok THEN closing.rcst
                 ELSE RcstError("Error ParenthesisNotClosed", <<>>)>>)))))))

RECURSIVE body_loop(_, _, _, _)
\* the loop of fn body: [input, expressions]. It goes on while the last
\* iteration pushed something.
body_loop(input, expressions, indentation, number_of_expressions_in_last_iteration) ==
    IF ~(number_of_expressions_in_last_iteration < Len(expressions))
    THEN [input |-> input, expressions |-> expressions]
    ELSE
    With(compiler_whitespaces_and_newlines(input, indentation, TRUE), LAMBDA ws :
    With(single_line_whitespace(ws.input), LAMBDA unexpected :
    With(expressions \o Leaves(ws.parts)
         \o (IF unexpected.ok
             THEN <<RcstError("Error TooMuchWhitespace",
                              render(Rcst(unexpected.part.kind, unexpected.part.text, 0,
                                          <<>>)))>>
             ELSE <<>>), LAMBDA pushed :
    With(IF unexpected.ok THEN unexpected.rest ELSE ws.input, LAMBDA at :
    With(expression(at,
                    indentation
                    + (IF unexpected.ok THEN Score(unexpected.part.text) \div 2 ELSE 0),
                    TRUE), LAMBDA expr :
    IF expr.ok
    THEN With(split_outer_trailing_whitespace(expr.rcst), LAMBDA split :
              body_loop(expr.rest, pushed \o <<split.rcst>> \o split.whitespace,
                        indentation, Len(expressions)))
    ELSE With(FirstFound(<<colon(ws.input), comma(ws.input),
                           closing_parenthesis(ws.input), closing_bracket(ws.input),
                           closing_curly_brace(ws.input), arrow(ws.input)>>),
              LAMBDA fallback :
         IF fallback.ok
         THEN body_loop(fallback.rest, Append(pushed, fallback.rcst), indentation,
                        Len(expressions))
         ELSE body_loop(at, pushed, indentation, Len(expressions))))))))

\* fn body
body(input, indentation) == body_loop(input, <<>>, indentation, 0 - 1)

\* fn rcst: the body of the module, and what was not parsed as an Error
rcst(source) ==
    With(body(source, 0), LAMBDA parsed :
        IF parsed.input # <<>>
        THEN Append(parsed.expressions, RcstError("Error UnparsedRest", parsed.input))
        ELSE parsed.expressions)

RcstInit ==
    /\ heap = HeapDefault
    /\ data_stack = <<>>
    /\ other = HeapDefault
    /\ address_map = EmptyMap
    /\ clone_roots = <<>>
    /\ clone_impl = "old"
    /\ last = [op |-> "init", address |-> 0]
    /\ fiber = NoFiber
    /\ vm = NoVm
    /\ compiler \in [stage : {"Source"}, source : Sources, rcsts : {<<>>},
                     rendered : {<<>>}]

\* db.rcst(module)
ParseRcst ==
    /\ compiler.stage = "Source"
    /\ compiler' = [compiler EXCEPT !.stage = "Rcst", !.rcsts = rcst(compiler.source)]
    /\ UNCHANGED machine

\* every Rcst of the module is displayed, one after the other
RenderRcsts ==
    /\ compiler.stage = "Rcst"
    /\ compiler' = [compiler EXCEPT !.stage = "Rendered",
                                    !.rendered = RenderAll(compiler.rcsts)]
    /\ UNCHANGED machine

RcstNext == ParseRcst \/ RenderRcsts

\* Every short source is parsed and displayed.
SpecRcst == RcstInit /\ [][RcstNext]_vars

\* C16: what is displayed for the RCST of a source is the source.
C16_RenderedIsTheSource ==
    compiler.stage = "Rendered" => compiler.rendered = compiler.source

\* Only a source with a list or with a number of several digits is displayed as
\* something else.
RenderedIsTheSourceButListsAndInts ==
    compiler.stage = "Rendered" /\ compiler.rendered # compiler.source =>
        \/ Contains(compiler.source, <<"0", "0">>)
        \/ \E i \in 1..Len(compiler.source), j \in 1..Len(compiler.source) :
               i < j /\ compiler.source[i] = "(" /\ compiler.source[j] = ","

\* The list (a, ) was displayed with its space twice.
C16_ListDisplayedWithMoreWhitespace ==
    /\ compiler.stage = "Rendered"
    /\ compiler.source = <<"(", "a", ",", " ", ")">>
    /\ compiler.rendered = <<"(", "a", ",", " ", " ", ")">>

\* A number was displayed without its leading zero.
IntDisplayedWithoutLeadingZero ==
    /\ compiler.stage = "Rendered"
    /\ compiler.source = <<"0", "0">>
    /\ compiler.rendered = <<"0">>

\* ------------------------------------------------ C21: import cycles
\* optimized_mir is a query of the database with the key (module, tracing).
\* Folding the modules of a body asks for the optimized MIR of every module it
\* uses; a key asked for while it is being computed is a cycle, and every
\* query of the cycle gets the result of recover_from_cycle.

MaxImports == 2

ModuleNames == {"a", "b", "c"}

TracingModes == {"Off", "OnlyCurrent", "All"}

\* TracingMode::for_child_module
TracingMode_for_child_module(mode) ==
    CASE mode = "Off" -> "Off"
      [] mode = "OnlyCurrent" -> "Off"
      [] mode = "All" -> "All"

\* TracingConfig::for_child_module
for_child_module(tracing) ==
    [register_fuzzables |-> TracingMode_for_child_module(tracing.register_fuzzables),
     calls |-> TracingMode_for_child_module(tracing.calls),
     evaluated_expressions |-> TracingMode_for_child_module(tracing.evaluated_expressions)]

TracingConfigs ==
    {[register_fuzzables |-> mode, calls |-> mode, evaluated_expressions |-> mode] :
        mode \in TracingModes}
    \cup {[register_fuzzables |-> "OnlyCurrent", calls |-> "Off",
           evaluated_expressions |-> "Off"]}

\* MirError::ModuleHasCycle { cycle }
ModuleHasCycle(cycle) == [kind |-> "ModuleHasCycle", cycle |-> cycle]

\* the text of the payload of an error
PayloadText(payload) == <<"Module has cycle">> \o payload.cycle

\* CompilerError::for_whole_module
for_whole_module(module, payload) == [module |-> module, payload |-> payload]

\* the result the query ends with in place of the one it was computing
recover_from_cycle_blaming_first(cycle, module) ==
    LET error == for_whole_module(module, ModuleHasCycle(cycle))
    IN [mir |-> [body |-> <<Defined(0, MirText(PayloadText(error.payload))),
                           Defined(1, MirHirId(cycle[1])),
                           Defined(2, MirPanic(0, 1))>>],
        errors |-> {error}]

recover_from_cycle(cycle, module) ==
    LET error == for_whole_module(module, ModuleHasCycle(cycle))
    IN [mir |-> [body |-> <<Defined(0, MirText(PayloadText(error.payload))),
                           Defined(1, MirHirId(module)),
                           Defined(2, MirPanic(0, 1))>>],
        errors |-> {error}]

NoResult == [mir |-> [body |-> <<>>], errors |-> {}]

QueryKeys == ModuleNames \X TracingConfigs

\* a query that is being computed: the body so far, the errors so far and the
\* next module of the body to fold
Query(module, tracing) ==
    [module |-> module, tracing |-> tracing, pc |-> 1,
     body |-> <<Defined(0, MirText(<<module>>))>>, errors |-> {}]

QueryKey(query) == <<query.module, query.tracing>>

\* the module the query folds next, compiled as a child module
NextUse(c) ==
    LET query == Last(c.stack)
    IN <<c.imports[query.module][query.pc], for_child_module(query.tracing)>>

\* the place of the key among the queries being computed, 0 when not there
ActiveAt(stack, key) ==
    IF \E i \in 1..Len(stack) : QueryKey(stack[i]) = key
    THEN CHOOSE i \in 1..Len(stack) : QueryKey(stack[i]) = key
    ELSE 0

\* the used module's body takes the place of the use, its errors are added
fold_module(query, result) ==
    [query EXCEPT !.pc = @ + 1,
                  !.body = Append(@, Defined(Len(@), MirMultiple(result.mir.body))),
                  !.errors = @ \cup result.errors]

\* the modules a module uses, in the order of its body, each once
UsedModules ==
    {uses \in UNION {[1..n -> ModuleNames] : n \in 0..MaxImports} :
        \A i, j \in 1..Len(uses) : uses[i] = uses[j] => i = j}

CycleInit ==
    /\ heap = HeapDefault
    /\ data_stack = <<>>
    /\ other = HeapDefault
    /\ address_map = EmptyMap
    /\ clone_roots = <<>>
    /\ clone_impl = "old"
    /\ last = [op |-> "init", address |-> 0]
    /\ fiber = NoFiber
    /\ vm = NoVm
    /\ \E imports \in [ModuleNames -> UsedModules],
          module \in ModuleNames, tracing \in TracingConfigs :
          compiler = [stage |-> "Query", imports |-> imports, module |-> module,
                      tracing |-> tracing, stack |-> <<>>,
                      memo |-> [key \in QueryKeys |-> NoResult],
                      result |-> NoResult]

Computing == compiler.stage = "Computing" /\ compiler.stack # <<>>

HasNextUse ==
    /\ Computing
    /\ Last(compiler.stack).pc <= Len(compiler.imports[Last(compiler.stack).module])

\* the result of the outermost query is the result of the compilation
Ended(c) ==
    IF c.stack = <<>>
    THEN [c EXCEPT !.stage = "Done", !.result = c.memo[<<c.module, c.tracing>>]]
    ELSE c

\* db.optimized_mir(module, tracing)
OptimizedMir ==
    /\ compiler.stage = "Query"
    /\ compiler' = [compiler EXCEPT !.stage = "Computing",
                                    !.stack = <<Query(compiler.module, compiler.tracing)>>]
    /\ UNCHANGED machine

\* the used module was not asked for before: its query starts
QueryUsedModule ==
    /\ HasNextUse
    /\ compiler.memo[NextUse(compiler)] = NoResult
    /\ ActiveAt(compiler.stack, NextUse(compiler)) = 0
    /\ compiler' = [compiler EXCEPT
                       !.stack = Append(@, Query(NextUse(compiler)[1], NextUse(compiler)[2]))]
    /\ UNCHANGED machine

\* the used module has a result already
FoldUsedModule ==
    /\ HasNextUse
    /\ compiler.memo[NextUse(compiler)] # NoResult
    /\ compiler' = [compiler EXCEPT
                       !.stack[Len(compiler.stack)] =
                           fold_module(@, compiler.memo[NextUse(compiler)])]
    /\ UNCHANGED machine

CycleDetected ==
    /\ HasNextUse
    /\ compiler.memo[NextUse(compiler)] = NoResult
    /\ ActiveAt(compiler.stack, NextUse(compiler)) # 0

\* the queries of the cycle, the one asked for again first
CycleQueries(c) == SubSeq(c.stack, ActiveAt(c.stack, NextUse(c)), Len(c.stack))

CycleOf(c) == [i \in 1..Len(CycleQueries(c)) |-> CycleQueries(c)[i].module]

\* the used module is being computed: every query of the cycle recovers
Recover ==
    /\ CycleDetected
    /\ compiler' =
          Ended([compiler EXCEPT
                    !.stack = SubSeq(@, 1, ActiveAt(compiler.stack, NextUse(compiler)) - 1),
                    !.memo = [key \in QueryKeys |->
                                 IF \E i \in 1..Len(CycleQueries(compiler)) :
                                        QueryKey(CycleQueries(compiler)[i]) = key
                                 THEN recover_from_cycle(CycleOf(compiler), key[1])
                                 ELSE @[key]]])
    /\ UNCHANGED machine

\* the body has no module left to fold: the query has its result
FinishQuery ==
    /\ Computing
    /\ ~HasNextUse
    /\ compiler' =
          Ended([compiler EXCEPT
                    !.stack = Front(@),
                    !.memo[QueryKey(Last(compiler.stack))] =
                        [mir |-> [body |-> Last(compiler.stack).body],
                         errors |-> Last(compiler.stack).errors]])
    /\ UNCHANGED machine

CycleNext ==
    \/ OptimizedMir
    \/ QueryUsedModule
    \/ FoldUsedModule
    \/ Recover
    \/ FinishQuery

SpecCycle == CycleInit /\ [][CycleNext]_vars

\* what recovering leaves for the query of one module of the cycle
RecoveredFor(result, module, cycle) ==
    /\ Cardinality(result.errors) = 1
    /\ \A error \in result.errors :
          /\ error.payload.kind = "ModuleHasCycle"
          /\ error.payload.cycle = cycle
          /\ Len(result.mir.body) = 3
          /\ result.mir.body[3].expression.kind = "Panic"
          /\ Run(result.mir).status = "Panicked"
          /\ Run(result.mir).reason = PayloadText(error.payload)
          /\ Run(result.mir).responsible = module

\* C21: when a module is asked for while it is being compiled, every query of
\* the cycle ends with a result that holds exactly one ModuleHasCycle error
\* listing the modules of the cycle, each using the next, and a MIR that panics with the text of that
\* error as the reason and the query's own module as the responsible one; when
\* the compiled module is in the cycle, this is the result of the compilation.
C21_CycleRecovered ==
    [][CycleDetected =>
          /\ \A i \in 1..Len(CycleQueries(compiler)) :
                RecoveredFor(compiler'.memo[QueryKey(CycleQueries(compiler)[i])],
                             CycleQueries(compiler)[i].module,
                             CycleOf(compiler))
          /\ \A i \in 1..Len(CycleOf(compiler)) :
                \E use \in 1..Len(compiler.imports[CycleOf(compiler)[i]]) :
                    compiler.imports[CycleOf(compiler)[i]][use] =
                        CycleOf(compiler)[(i % Len(CycleOf(compiler))) + 1]
          /\ ActiveAt(compiler.stack, NextUse(compiler)) = 1 =>
                /\ compiler'.stage = "Done"
                /\ RecoveredFor(compiler'.result, compiler.module, CycleOf(compiler))]_vars

\* a compilation that ended with the recovery of a cycle of two modules or more
\* that its module is one of
C21_CompiledModuleInCycle ==
    /\ compiler.stage = "Done"
    /\ \E error \in compiler.result.errors :
          /\ Len(error.payload.cycle) >= 2
          /\ error.payload.cycle[1] = compiler.module
          /\ error.module = compiler.module
    /\ Run(compiler.result.mir).status = "Panicked"
    /\ Run(compiler.result.mir).responsible = compiler.module

\* ------------------------------------------- C22, C23: lowering to the LIR
\* An instruction of the LIR. n is the offset of PushFromStack, the number of
\* PopMultipleBelowTop, the num_items, num_fields or num_args of the others;
\* m is the num_locals_to_pop of a TailCall; captured and body are those of
\* CreateClosure. id is the id the instruction was emitted for and ids the ids
\* the stack of a closure's body starts with: they are not part of the
\* instruction and only serve to state what the offsets stand for.
Instruction(op, n, id) ==
    [op |-> op, n |-> n, m |-> 0, captured |-> <<>>, body |-> <<>>, id |-> id, ids |-> <<>>]

CreateClosure(captured, num_args, mir_body, id, ids) ==
    [op |-> "CreateClosure", n |-> num_args, m |-> 0, captured |-> captured,
     body |-> mir_body, id |-> id, ids |-> ids]

TailCall(num_locals_to_pop, num_args, id) ==
    [op |-> "TailCall", n |-> num_args, m |-> num_locals_to_pop, captured |-> <<>>,
     body |-> <<>>, id |-> id, ids |-> <<>>]

\* LoweringContext; panicked when lowering ran into one of its panics
LoweringContext(stack, instructions, panicked) ==
    [stack |-> stack, instructions |-> instructions, panicked |-> panicked]

\* StackExt::pop_multiple
pop_multiple(stack, n) == SubSeq(stack, 1, Len(stack) - n)

\* the position counted from the bottom instead
find_id_from_bottom(stack, id) ==
    IF \E i \in 1..Len(stack) : stack[i] = id
    THEN (CHOOSE i \in 1..Len(stack) :
             /\ stack[i] = id
             /\ \A j \in (i + 1)..Len(stack) : stack[j] # id) - 1
    ELSE -1

\* StackExt::find_id: the position of the id counted from the top, -1 for the
\* panic when it is not on the stack
find_id(stack, id) ==
    IF \E i \in 1..Len(stack) : stack[i] = id
    THEN Len(stack) - (CHOOSE i \in 1..Len(stack) :
                          /\ stack[i] = id
                          /\ \A j \in (i + 1)..Len(stack) : stack[j] # id)
    ELSE -1

\* StackExt::replace_top_id
replace_top_id(stack, id) == Append(Front(stack), id)

\* Instruction::apply_to_stack: what the instruction does to the stack of ids
apply_to_stack(instruction, stack, id) ==
    CASE instruction.op \in {"CreateInt", "CreateText", "CreateSymbol", "CreateBuiltin",
                             "CreateHirId", "CreateClosure", "PushFromStack"} ->
             Append(stack, id)
      [] instruction.op = "CreateList" -> Append(pop_multiple(stack, instruction.n), id)
      [] instruction.op = "CreateStruct" ->
             Append(pop_multiple(stack, 2 * instruction.n), id)
      [] instruction.op = "Call" -> Append(pop_multiple(stack, instruction.n + 2), id)
      [] instruction.op = "Panic" -> Append(pop_multiple(stack, 2), id)
      [] instruction.op = "PopMultipleBelowTop" ->
             Append(pop_multiple(Front(stack), instruction.n), Last(stack))
      [] OTHER -> stack

\* LoweringContext::emit
emit(context, id, instruction) ==
    [context EXCEPT !.stack = apply_to_stack(instruction, @, id),
                    !.instructions = Append(@, instruction)]

\* LoweringContext::emit_push_from_stack
emit_push_from_stack(context, id) ==
    LET offset == find_id(context.stack, id)
    IN IF offset < 0 THEN [context EXCEPT !.panicked = TRUE]
       ELSE emit(context, id, Instruction("PushFromStack", offset, id))

RECURSIVE emit_pushes(_, _)
\* for item in items { self.emit_push_from_stack(*item) }
emit_pushes(context, ids) ==
    IF ids = <<>> THEN context
    ELSE emit_pushes(emit_push_from_stack(context, Head(ids)), Tail(ids))

\* the orders a hash set of ids may be iterated in
HashOrders == {"ascending", "descending"}

RECURSIVE Ascending(_)
Ascending(set) ==
    IF set = {} THEN <<>>
    ELSE LET least == CHOOSE x \in set : \A y \in set : x <= y
         IN <<least>> \o Ascending(set \ {least})

\* captured.iter()
Iterated(set, hash_order) ==
    IF hash_order = "ascending" THEN Ascending(set)
    ELSE [i \in 1..Cardinality(set) |-> Ascending(set)[Cardinality(set) + 1 - i]]

\* Expression::captured_ids: the ids the lambda names and does not define
captured_ids(mir_expression) ==
    UsedIn(mir_expression) \ (ParametersOf(mir_expression) \cup DefinedIn(mir_expression.body))

RECURSIVE compile_lambda(_, _, _, _, _)
RECURSIVE compile_expression(_, _, _, _)
RECURSIVE compile_body(_, _, _, _)

\* for (id, expression) in body.iter() { context.compile_expression(id, expression) }
compile_body(context, mir_body, i, hash_order) ==
    IF i > Len(mir_body) \/ context.panicked THEN context
    ELSE compile_body(compile_expression(context, mir_body[i].id, mir_body[i].expression, hash_order),
                      mir_body, i + 1, hash_order)

\* one entry of the frame is left below the result
compile_lambda_keeping_a_local(captured, parameters, responsible_parameter, mir_body, hash_order) ==
    LET start == LoweringContext(captured \o parameters \o <<responsible_parameter>>,
                                 <<>>, FALSE)
        context == compile_body(start, mir_body, 1, hash_order)
    IN IF context.panicked \/ context.instructions = <<>> THEN <<>>
       ELSE IF Last(context.instructions).op = "Call"
       THEN Append(Front(context.instructions),
                   TailCall(Len(context.stack) - 2, Last(context.instructions).n,
                            Last(context.instructions).id))
       ELSE emit(emit(context, 0,
                      Instruction("PopMultipleBelowTop", Len(context.stack) - 2, 0)),
                 0, Instruction("Return", 0, 0)).instructions

\* compile_lambda: the instructions of a body, <<>> when lowering panics
compile_lambda(captured, parameters, responsible_parameter, mir_body, hash_order) ==
    LET start == LoweringContext(captured \o parameters \o <<responsible_parameter>>,
                                 <<>>, FALSE)
        context == compile_body(start, mir_body, 1, hash_order)
    IN IF context.panicked \/ context.instructions = <<>> THEN <<>>
       ELSE IF Last(context.instructions).op = "Call"
       THEN Append(Front(context.instructions),
                   TailCall(Len(context.stack) - 1, Last(context.instructions).n,
                            Last(context.instructions).id))
       ELSE emit(emit(context, 0,
                      Instruction("PopMultipleBelowTop", Len(context.stack) - 1, 0)),
                 0, Instruction("Return", 0, 0)).instructions

\* LoweringContext::compile_expression
compile_expression(context, id, mir_expression, hash_order) ==
    CASE mir_expression.kind = "Int" -> emit(context, id, Instruction("CreateInt", mir_expression.num, id))
      [] mir_expression.kind = "Text" -> emit(context, id, Instruction("CreateText", 0, id))
      [] mir_expression.kind = "Reference" ->
             LET pushed == emit_push_from_stack(context, mir_expression.ids[1])
             IN IF pushed.panicked THEN pushed
                ELSE [pushed EXCEPT !.stack = replace_top_id(@, id)]
      [] mir_expression.kind = "Symbol" -> emit(context, id, Instruction("CreateSymbol", 0, id))
      [] mir_expression.kind = "Builtin" -> emit(context, id, Instruction("CreateBuiltin", 0, id))
      [] mir_expression.kind = "List" ->
             LET pushed == emit_pushes(context, mir_expression.ids)
             IN IF pushed.panicked THEN pushed
                ELSE emit(pushed, id, Instruction("CreateList", Len(mir_expression.ids), id))
      [] mir_expression.kind = "Struct" ->
             LET pushed == emit_pushes(context, mir_expression.ids)
             IN IF pushed.panicked THEN pushed
                ELSE emit(pushed, id, Instruction("CreateStruct", Len(mir_expression.ids) \div 2, id))
      [] mir_expression.kind = "HirId" -> emit(context, id, Instruction("CreateHirId", 0, id))
      [] mir_expression.kind = "Lambda" ->
             LET captured == Iterated(captured_ids(mir_expression), hash_order)
                 parameters == SubSeq(mir_expression.ids, 1, mir_expression.num)
                 instructions == compile_lambda(captured, parameters,
                                                mir_expression.ids[mir_expression.num + 1],
                                                mir_expression.body, hash_order)
                 offsets == [i \in 1..Len(captured) |-> find_id(context.stack, captured[i])]
             IN IF instructions = <<>> \/ \E i \in 1..Len(offsets) : offsets[i] < 0
                THEN [context EXCEPT !.panicked = TRUE]
                ELSE emit(context, id,
                          CreateClosure(offsets, mir_expression.num, instructions, id,
                                        captured \o mir_expression.ids))
      [] mir_expression.kind = "Call" ->
             LET pushed == emit_pushes(context, mir_expression.ids)
             IN IF pushed.panicked THEN pushed
                ELSE emit(pushed, id, Instruction("Call", Len(mir_expression.ids) - 2, id))
      [] mir_expression.kind = "Panic" ->
             LET pushed == emit_pushes(context, mir_expression.ids)
             IN IF pushed.panicked THEN pushed
                ELSE emit(pushed, id, Instruction("Panic", 0, id))
      [] OTHER -> [context EXCEPT !.panicked = TRUE]

\* --- the programs that get lowered

MaxInner == 2

MaxDepth == 2

\* an Int, a reference to a visible id, a list of one if lists are wanted, a
\* call of a visible id that is a lambda or a parameter
LoweredSimple(visible, lambdas, responsible, lists) ==
    {MirInt(0)}
    \cup {MirReference(v) : v \in visible}
    \cup {MirList(<<v>>) : v \in IF lists THEN visible ELSE {}}
    \cup {MirCall(f, <<a>>, responsible) : f \in lambdas, a \in visible}

RECURSIVE LoweredBodies(_, _, _, _, _, _)
RECURSIVE LoweredLambdas(_, _, _, _)

\* The lambdas of one parameter that may get the id, depth levels of lambdas
\* being left. The body may name every visible id and the parameter; the
\* responsible parameter is named by the calls only. The ids of what a lambda
\* defines are the lambda's id followed by one more digit; the body of a lambda
\* in a lambda is one expression.
LoweredLambdas(visible, lambdas, id, depth) ==
    IF depth = 0 THEN {}
    ELSE {MirLambda(<<10 * id + 1>>, 10 * id + 2, inner) :
             inner \in UNION {LoweredBodies(visible \cup {10 * id + 1},
                                            lambdas \cup {10 * id + 1},
                                            10 * id + 2, 10 * id + 2, n, depth - 1) :
                                 n \in 1..(IF depth = MaxDepth THEN MaxInner ELSE 1)}}

\* the bodies of n expressions with the ids after base
LoweredBodies(visible, lambdas, responsible, base, n, depth) ==
    IF n = 0 THEN {<<>>}
    ELSE UNION {{<<Defined(base + 1, first)>> \o rest :
                    rest \in LoweredBodies(visible \cup {base + 1},
                                           IF first.kind = "Lambda"
                                           THEN lambdas \cup {base + 1} ELSE lambdas,
                                           responsible, base + 1, n - 1, depth)} :
                   first \in LoweredSimple(visible, lambdas, responsible, FALSE)
                                 \cup LoweredLambdas(visible, lambdas, base + 1, depth)}

\* an Int or a lambda that wraps its argument in a list, then anything with
\* lambdas up to the depth, then something over the two that is not a lambda
LoweredPrograms(depth) ==
    UNION {UNION {{<<Defined(1, first), Defined(2, second), Defined(3, third)>> :
                      third \in LoweredSimple({1, 2},
                                              {id \in {1, 2} :
                                                  <<first, second>>[id].kind = "Lambda"},
                                              0, TRUE)} :
                     second \in LoweredSimple({1}, {id \in {1} : first.kind = "Lambda"},
                                              0, TRUE)
                                    \cup LoweredLambdas({1}, {id \in {1} : first.kind = "Lambda"},
                                                        2, depth)} :
              first \in {MirInt(0), MirLambda(<<11>>, 12, <<Defined(13, MirList(<<11>>))>>)}}

RECURSIVE CapturesSeveral(_)
\* some lambda of the body, at any depth, captures more than one id
CapturesSeveral(mir_body) ==
    \E i \in 1..Len(mir_body) :
        \/ /\ mir_body[i].expression.kind = "Lambda"
           /\ Cardinality(captured_ids(mir_body[i].expression)) > 1
        \/ CapturesSeveral(mir_body[i].expression.body)

\* --- running the LIR

MaxFrames == 4

RECURSIVE DefinitionOf(_, _)
\* the expression a body defines the id by, at any depth; Parameter for the
\* ids no expression defines
DefinitionOf(mir_body, id) ==
    IF mir_body = <<>> THEN Parameter
    ELSE IF Head(mir_body).id = id THEN Head(mir_body).expression
    ELSE IF DefinitionOf(Head(mir_body).expression.body, id) # Parameter
    THEN DefinitionOf(Head(mir_body).expression.body, id)
    ELSE DefinitionOf(Tail(mir_body), id)

RECURSIVE Origin(_, _)
\* the id whose expression makes the value of the id: references followed
Origin(mir_body, id) ==
    IF DefinitionOf(mir_body, id).kind = "Reference"
    THEN Origin(mir_body, DefinitionOf(mir_body, id).ids[1])
    ELSE id

\* A value of the data stack. id and frame tell where it is from: the id whose
\* expression made it and the call in which that was evaluated. A closure has
\* its captured values as items and the num_args, body and ids of its
\* CreateClosure.
LirValue(kind, id, frame, items, instruction) ==
    [kind |-> kind, id |-> id, frame |-> frame, items |-> items,
     n |-> instruction.n, body |-> instruction.body, ids |-> instruction.ids]

\* the entry of the data stack at the offset from the top
AtOffset(data, offset) == data[Len(data) - offset]

\* the values a called closure's body starts on: captured, arguments, responsible
Prefilled(mir_body, closure, arguments, frame) ==
    [i \in 1..Len(closure.items \o arguments) |->
        [(closure.items \o arguments)[i] EXCEPT !.id = Origin(mir_body, closure.ids[i]),
                                                !.frame = frame]]

\* Every program under every order the captured ids may be iterated in; one
\* order is enough where no lambda captures more than one id.
LowerInit ==
    /\ heap = HeapDefault
    /\ data_stack = <<>>
    /\ other = HeapDefault
    /\ address_map = EmptyMap
    /\ clone_roots = <<>>
    /\ clone_impl = "old"
    /\ last = [op |-> "init", address |-> 0]
    /\ fiber = NoFiber
    /\ vm = NoVm
    /\ compiler \in [stage : {"Mir"}, mir : LoweredPrograms(MaxDepth), hash_order : HashOrders,
                     code : {<<>>}, pc : {1}, data : {<<>>}, below : {<<>>},
                     calls : {<<>>}, frame : {0}, frames : {0}]
    /\ compiler.hash_order = "ascending" \/ CapturesSeveral(compiler.mir)

\* fn lir: the module's body lowered as a lambda of no parameter, then started
\* with the responsible value on the stack
LowerToLir ==
    /\ compiler.stage = "Mir"
    /\ compiler' =
          [compiler EXCEPT
              !.stage = "Running",
              !.code = compile_lambda(<<>>, <<>>, 0, compiler.mir, compiler.hash_order),
              !.data = <<LirValue("HirId", 0, 0, <<>>, Instruction("CreateHirId", 0, 0))>>]
    /\ UNCHANGED machine

NextInstruction == compiler.code[compiler.pc]

AtInstruction(ops) ==
    /\ compiler.stage = "Running"
    /\ compiler.pc <= Len(compiler.code)
    /\ NextInstruction.op \in ops

\* CreateInt, CreateList, CreateClosure: the value made of the topmost entries
LirCreate ==
    /\ AtInstruction({"CreateInt", "CreateList", "CreateClosure"})
    /\ compiler' =
          [compiler EXCEPT
              !.pc = @ + 1,
              !.data =
                  CASE NextInstruction.op = "CreateInt" ->
                           Append(@, LirValue("Int", NextInstruction.id, compiler.frame, <<>>,
                                              Instruction("CreateInt", 0, 0)))
                    [] NextInstruction.op = "CreateList" ->
                           Append(pop_multiple(@, NextInstruction.n),
                                  LirValue("List", NextInstruction.id, compiler.frame,
                                           SubSeq(@, Len(@) - NextInstruction.n + 1, Len(@)),
                                           Instruction("CreateList", 0, 0)))
                    [] NextInstruction.op = "CreateClosure" ->
                           Append(@, LirValue("Closure", NextInstruction.id, compiler.frame,
                                              [i \in 1..Len(NextInstruction.captured) |->
                                                  AtOffset(@, NextInstruction.captured[i])],
                                              NextInstruction))]
    /\ UNCHANGED machine

\* PushFromStack(offset)
LirPushFromStack ==
    /\ AtInstruction({"PushFromStack"})
    /\ compiler' = [compiler EXCEPT !.pc = @ + 1,
                                    !.data = Append(@, AtOffset(@, NextInstruction.n))]
    /\ UNCHANGED machine

\* PopMultipleBelowTop(n)
LirPopMultipleBelowTop ==
    /\ AtInstruction({"PopMultipleBelowTop"})
    /\ compiler' = [compiler EXCEPT
                       !.pc = @ + 1,
                       !.data = Append(pop_multiple(Front(@), NextInstruction.n), Last(@))]
    /\ UNCHANGED machine

\* the closure a Call or TailCall is about to call, its arguments with the
\* responsible value last, and the entries below these
CalledClosure == AtOffset(compiler.data, NextInstruction.n + 1)

PassedArguments ==
    SubSeq(compiler.data, Len(compiler.data) - NextInstruction.n, Len(compiler.data))

BelowCall == pop_multiple(compiler.data, NextInstruction.n + 2)

Callable ==
    /\ CalledClosure.kind = "Closure"
    /\ CalledClosure.n = NextInstruction.n

\* Call { num_args }: a new call frame on top of the caller's entries
LirCall ==
    /\ AtInstruction({"Call"})
    /\ Callable
    /\ compiler.frames < MaxFrames
    /\ compiler' =
          [compiler EXCEPT
              !.calls = Append(@, [code |-> compiler.code, pc |-> compiler.pc + 1,
                                   id |-> NextInstruction.id, frame |-> compiler.frame,
                                   below |-> compiler.below]),
              !.code = CalledClosure.body,
              !.pc = 1,
              !.below = BelowCall,
              !.frames = @ + 1,
              !.frame = compiler.frames + 1,
              !.data = BelowCall \o Prefilled(compiler.mir, CalledClosure, PassedArguments,
                                              compiler.frames + 1)]
    /\ UNCHANGED machine

\* TailCall { num_locals_to_pop, num_args }: the locals go, the call frame stays
LirTailCall ==
    /\ AtInstruction({"TailCall"})
    /\ Callable
    /\ compiler.frames < MaxFrames
    /\ compiler' =
          [compiler EXCEPT
              !.code = CalledClosure.body,
              !.pc = 1,
              !.frames = @ + 1,
              !.frame = compiler.frames + 1,
              !.data = pop_multiple(BelowCall, NextInstruction.m)
                           \o Prefilled(compiler.mir, CalledClosure, PassedArguments,
                                        compiler.frames + 1)]
    /\ UNCHANGED machine

\* a call of what is no closure of that many parameters
LirCallFails ==
    /\ AtInstruction({"Call", "TailCall"})
    /\ ~Callable
    /\ compiler' = [compiler EXCEPT !.stage = "Panicked"]
    /\ UNCHANGED machine

\* Return: the call frame goes; the value on top is the value of the call
LirReturn ==
    /\ AtInstruction({"Return"})
    /\ compiler' =
          IF compiler.calls = <<>> THEN [compiler EXCEPT !.stage = "Done"]
          ELSE [compiler EXCEPT
                   !.calls = Front(@),
                   !.code = Last(compiler.calls).code,
                   !.pc = Last(compiler.calls).pc,
                   !.frame = Last(compiler.calls).frame,
                   !.below = Last(compiler.calls).below,
                   !.data = Append(Front(@),
                                   [Last(@) EXCEPT !.id = Last(compiler.calls).id,
                                                   !.frame = Last(compiler.calls).frame])]
    /\ UNCHANGED machine

LowerNext ==
    \/ LowerToLir
    \/ LirCreate
    \/ LirPushFromStack
    \/ LirPopMultipleBelowTop
    \/ LirCall
    \/ LirTailCall
    \/ LirCallFails
    \/ LirReturn

SpecLower == LowerInit /\ [][LowerNext]_vars

\* the entries of the data stack are told apart by where they are from
SameOrigin(value, id) ==
    /\ value.id = Origin(compiler.mir, id)
    /\ value.frame = compiler.frame

\* C22: whenever a PushFromStack(offset) emitted for an id is about to run, at
\* the top level or in the body of a closure that started on its captured
\* values, its arguments and the responsible value, the entry at that offset
\* from the top of the data stack (0 being the top) is the value of that id in
\* the running call; and whenever a CreateClosure is about to run, the entry at
\* its i-th captured offset is the value of the id that the i-th entry of the
\* closure's body starts as.
C22_OffsetsAddressTheirIds ==
    /\ AtInstruction({"PushFromStack"}) =>
          /\ NextInstruction.n < Len(compiler.data) - Len(compiler.below)
          /\ SameOrigin(AtOffset(compiler.data, NextInstruction.n), NextInstruction.id)
    /\ AtInstruction({"CreateClosure"}) =>
          \A i \in 1..Len(NextInstruction.captured) :
              /\ NextInstruction.captured[i] < Len(compiler.data) - Len(compiler.below)
              /\ SameOrigin(AtOffset(compiler.data, NextInstruction.captured[i]),
                            NextInstruction.ids[i])
    /\ compiler.stage = "Running" => compiler.code # <<>>

\* in the body of a closure in a closure, called with two captured values, the
\* captured parameter of the outer closure is about to be pushed
C22_CapturedPushedInNestedClosure ==
    /\ AtInstruction({"PushFromStack"})
    /\ Len(compiler.data) - Len(compiler.below) >= 4
    /\ compiler.data[Len(compiler.below) + 1].id = 1
    /\ compiler.data[Len(compiler.below) + 2].id = 21
    /\ NextInstruction.id = 21
    /\ NextInstruction.n >= 2

RECURSIVE EndsWithTailCallOrReturn(_)
\* the body, and the body of every closure it creates, ends with a TailCall or
\* with a PopMultipleBelowTop and a Return and has neither before its end
EndsWithTailCallOrReturn(instructions) ==
    LET n == Len(instructions)
        end == IF n >= 1 /\ instructions[n].op = "TailCall" THEN n
               ELSE IF /\ n >= 2
                       /\ instructions[n].op = "Return"
                       /\ instructions[n - 1].op = "PopMultipleBelowTop"
               THEN n - 1
               ELSE 0
    IN /\ end >= 1
       /\ \A i \in 1..(end - 1) :
             /\ instructions[i].op \notin {"TailCall", "Return", "PopMultipleBelowTop"}
             /\ instructions[i].op = "CreateClosure" =>
                   EndsWithTailCallOrReturn(instructions[i].body)

\* the entries of the running call on the data stack
FrameSize == Len(compiler.data) - Len(compiler.below)

\* C23: every lowered body ends with a TailCall or with a PopMultipleBelowTop
\* and a Return. When the TailCall is about to run, its num_locals_to_pop is
\* the number of entries of the call that lie below the function, the arguments
\* and the responsible value, so that the called body starts right on top of
\* the caller's entries; the PopMultipleBelowTop takes every entry of the call
\* but the top one, which is the value of the body's last expression; when the
\* Return is about to run, the data stack is the caller's entries and that
\* value; and when the module's body has returned, the value is all there is.
C23_FrameLeftWithTheResult ==
    /\ compiler.stage = "Running" => EndsWithTailCallOrReturn(compiler.code)
    /\ AtInstruction({"TailCall"}) =>
          /\ NextInstruction.m = FrameSize - (NextInstruction.n + 2)
          /\ pop_multiple(BelowCall, NextInstruction.m) = compiler.below
    /\ AtInstruction({"PopMultipleBelowTop"}) =>
          /\ NextInstruction.n = FrameSize - 1
          /\ SameOrigin(Last(compiler.data), compiler.code[compiler.pc - 1].id)
    /\ AtInstruction({"Return"}) =>
          compiler.data = Append(compiler.below, Last(compiler.data))
    /\ compiler.stage = "Done" => Len(compiler.data) = 1

\* a call that was not the last of its body has returned into a call that was
\* itself started by a tail call, and that body is about to make its tail call
C23_TailCallAfterReturnedCall ==
    /\ AtInstruction({"TailCall"})
    /\ compiler.frames >= 2
    /\ compiler.pc > 1
    /\ compiler.code[compiler.pc - 1].op = "PushFromStack"
    /\ NextInstruction.m >= 3
    /\ \E i \in 1..(compiler.pc - 1) : compiler.code[i].op = "Call"

\* ------------------------------------------------ C24: the path of a use
\* Vm::use_module parses the relative path it is given and resolves it
\* relative to the path of the module that uses it.

MaxUsePath == 4

MaxModulePath == 3

PARENT_NAVIGATION_CHAR == "."

UseAlphabet == {".", "a", "/"}

\* the exported value of the path: a text or something that is none
UseTargets ==
    {[text |-> TRUE, characters |-> characters] :
        characters \in UNION {[1..n -> UseAlphabet] : n \in 0..MaxUsePath}}
    \cup {[text |-> FALSE, characters |-> <<>>]}

\* the path of the using module: its components, the innermost last
ModulePaths == UNION {[1..n -> {<<"a">>, <<"b">>}] : n \in 0..MaxModulePath}

UsePath(parent_navigations, path) ==
    [ok |-> TRUE, error |-> <<>>, parent_navigations |-> parent_navigations, path |-> path]

UseError(error) == [ok |-> FALSE, error |-> error, parent_navigations |-> 0, path |-> <<>>]

\* every dot is a parent navigation
UsePath_parse_every_dot(target) ==
    IF ~target.text THEN UseError("the path has to be a text")
    ELSE LET navigations == LeadingIn(target.characters, {PARENT_NAVIGATION_CHAR})
             path == Skip(target.characters, navigations)
         IN IF navigations = 0
            THEN UseError("the target must start with at least one dot")
            ELSE IF \E i \in 1..Len(path) :
                        path[i] \notin AsciiAlphanumeric \cup {"."}
            THEN UseError("the target name can only contain letters and dots")
            ELSE UsePath(navigations, path)

\* UsePath::parse
UsePath_parse(target) ==
    IF ~target.text THEN UseError("the path has to be a text")
    ELSE LET navigations == LeadingIn(target.characters, {PARENT_NAVIGATION_CHAR})
             path == Skip(target.characters, navigations)
         IN IF navigations = 0
            THEN UseError("the target must start with at least one dot")
            ELSE IF \E i \in 1..Len(path) :
                        path[i] \notin AsciiAlphanumeric \cup {"."}
            THEN UseError("the target name can only contain letters and dots")
            ELSE UsePath(navigations - 1, path)

ResolvedModule(path, kind) == [ok |-> TRUE, error |-> <<>>, path |-> path, kind |-> kind]

ResolveError(error) == [ok |-> FALSE, error |-> error, path |-> <<>>, kind |-> ""]

\* UsePath::resolve_relative_to
resolve_relative_to(self, current_module) ==
    LET kind == IF \E i \in 1..Len(self.path) : self.path[i] = "." THEN "Asset" ELSE "Code"
    IN IF self.parent_navigations > Len(current_module)
       THEN ResolveError("too many parent navigations")
       ELSE ResolvedModule(Append(SubSeq(current_module, 1,
                                         Len(current_module) - self.parent_navigations),
                                  self.path),
                           kind)

UseInit ==
    /\ heap = HeapDefault
    /\ data_stack = <<>>
    /\ other = HeapDefault
    /\ address_map = EmptyMap
    /\ clone_roots = <<>>
    /\ clone_impl = "old"
    /\ last = [op |-> "init", address |-> 0]
    /\ fiber = NoFiber
    /\ vm = NoVm
    /\ compiler \in [stage : {"Use"}, current_module : ModulePaths, relative_path : UseTargets,
                     target : {UseError("")}, module : {ResolveError("")}]

\* let target = UsePath::parse(self.heap.export(relative_path))?
ParseUsePath ==
    /\ compiler.stage = "Use"
    /\ compiler' = [compiler EXCEPT
                       !.target = UsePath_parse(compiler.relative_path),
                       !.stage = IF UsePath_parse(compiler.relative_path).ok
                                 THEN "Parsed" ELSE "Failed"]
    /\ UNCHANGED machine

\* let module = target.resolve_relative_to(current_module)?
ResolveUsePath ==
    /\ compiler.stage = "Parsed"
    /\ compiler' = [compiler EXCEPT
                       !.module = resolve_relative_to(compiler.target, compiler.current_module),
                       !.stage = IF resolve_relative_to(compiler.target,
                                                        compiler.current_module).ok
                                 THEN "Resolved" ELSE "Failed"]
    /\ UNCHANGED machine

UseNext ==
    \/ ParseUsePath
    \/ ResolveUsePath

SpecUse == UseInit /\ [][UseNext]_vars

\* the dots the path starts with, and what follows them
UseDots == LeadingIn(compiler.relative_path.characters, {"."})

UseRest == Skip(compiler.relative_path.characters, UseDots)

\* use_module has ended, with a module or with an error
UseEnded == compiler.stage \in {"Resolved", "Failed"}

UseWellFormed ==
    /\ compiler.relative_path.text
    /\ UseDots >= 1
    /\ \A i \in 1..Len(UseRest) : UseRest[i] \in {"a", "."}

\* C24 as stated: a path of n leading dots resolves n levels up, ..foo two:
\* n components of the using module's path are popped and the rest of the
\* path is appended, and more dots than components give an error.
C24_EveryDotPopsAComponent ==
    (UseEnded /\ UseWellFormed) =>
        IF UseDots > Len(compiler.current_module)
        THEN compiler.stage = "Failed"
        ELSE /\ compiler.stage = "Resolved"
             /\ compiler.module.path =
                    Append(SubSeq(compiler.current_module, 1,
                                  Len(compiler.current_module) - UseDots),
                           UseRest)

\* C24: a path of n leading dots, n at least one, has n - 1 parent
\* navigations: n - 1 components of the using module's path are popped (one
\* for ..foo, none for .foo) and the rest of the path is appended as one
\* component; a path with more parent navigations than the using module's path
\* has components gives the error "too many parent navigations" instead of a
\* module.
C24_AllDotsButOnePopAComponent ==
    (UseEnded /\ UseWellFormed) =>
        IF UseDots - 1 > Len(compiler.current_module)
        THEN /\ compiler.stage = "Failed"
             /\ ~compiler.module.ok
             /\ compiler.module.error = "too many parent navigations"
        ELSE /\ compiler.stage = "Resolved"
             /\ compiler.module.ok
             /\ compiler.module.path =
                    Append(SubSeq(compiler.current_module, 1,
                                  Len(compiler.current_module) - (UseDots - 1)),
                           UseRest)

\* ..a used by the module a/b resolved to a/a
C24_TwoDotsPoppedOne ==
    /\ compiler.stage = "Resolved"
    /\ compiler.relative_path.characters = <<".", ".", "a">>
    /\ compiler.current_module = <<<<"a">>, <<"b">>>>
    /\ compiler.module.path = <<<<"a">>, <<"a">>>>

\* ...a used by the module a failed: two parent navigations, one component
UseFailedWithTooManyNavigations ==
    /\ compiler.stage = "Failed"
    /\ compiler.relative_path.characters = <<".", ".", ".", "a">>
    /\ compiler.current_module = <<<<"a">>>>
    /\ compiler.module.error = "too many parent navigations"

\* ------------------------------------------- C25, C30: the fuzzer's InputPool
\* InputPool { num_args, symbols, input_scores }. An input is the sequence of
\* its arguments; the arguments are Ints and symbols of the pool.

MaxArgs == 2

MaxInt == 3

MaxPool == 21

MinInputsToMutate == 20

SymbolTexts == {"Nothing", "True"}

Scores == {0, 1}

\* the orders a collection may be iterated in
Orders(set) ==
    {order \in [1..Cardinality(set) -> set] :
        \A i, j \in 1..Cardinality(set) : order[i] = order[j] => i = j}

\* Nothing is pushed whatever was observed
InputPool_new_with_nothing(num_args, symbols_in_heap) ==
    [num_args |-> num_args,
     symbols |-> Append(symbols_in_heap, "Nothing"),
     input_scores |-> <<>>]

\* InputPool::new; symbols_in_heap as the set is iterated
InputPool_new(num_args, symbols_in_heap) ==
    [num_args |-> num_args,
     symbols |-> IF symbols_in_heap = <<>> THEN <<"Nothing">> ELSE symbols_in_heap,
     input_scores |-> <<>>]

\* the values an argument may be
InputValues(symbols) ==
    [i \in 1..(MaxInt + 1) |-> [kind |-> "Int", num |-> i - 1, symbol |-> ""]]
    \o [i \in 1..Len(symbols) |-> [kind |-> "Symbol", num |-> 0, symbol |-> symbols[i]]]

RECURSIVE InputsInOrder(_, _)
\* every input of that many arguments, in one order
InputsInOrder(num_args, symbols) ==
    IF num_args = 0 THEN <<<<>>>>
    ELSE LET shorter == InputsInOrder(num_args - 1, symbols)
             values == InputValues(symbols)
         IN [i \in 1..(Len(shorter) * Len(values)) |->
                Append(shorter[((i - 1) \div Len(values)) + 1],
                       values[((i - 1) % Len(values)) + 1])]

\* Input::generate: any input of the pool's number of arguments
Generated(pool) == SeqRange(InputsInOrder(pool.num_args, pool.symbols))

\* the inputs of the pool: the keys of input_scores
PoolInputs(pool) == {pool.input_scores[i].input : i \in 1..Len(pool.input_scores)}

\* the inputs choose_weighted may give: those of a positive score
Weighted(pool) ==
    {pool.input_scores[i].input :
        i \in {j \in 1..Len(pool.input_scores) : pool.input_scores[j].score > 0}}

\* input.mutate: the chosen input with one argument replaced by any value
Mutated(pool, input) ==
    {[input EXCEPT ![i] = value] :
        i \in 1..Len(input), value \in SeqRange(InputValues(pool.symbols))}
    \cup {input}

\* InputPool::generate_input: what it may return; {} stands for the panic of
\* unwrap when choose_weighted finds no positive score
generate_input(pool, fresh) ==
    IF fresh \/ Len(pool.input_scores) < MinInputsToMutate
    THEN Generated(pool)
    ELSE UNION {Mutated(pool, input) : input \in Weighted(pool)}

\* InputPool::add
InputPool_add(pool, input, score) ==
    [pool EXCEPT !.input_scores =
        IF input \in PoolInputs(pool)
        THEN [i \in 1..Len(@) |-> IF @[i].input = input
                                  THEN [input |-> input, score |-> score] ELSE @[i]]
        ELSE Append(@, [input |-> input, score |-> score])]

NoPool == [num_args |-> 0, symbols |-> <<>>, input_scores |-> <<>>]

PoolInit ==
    /\ heap = HeapDefault
    /\ data_stack = <<>>
    /\ other = HeapDefault
    /\ address_map = EmptyMap
    /\ clone_roots = <<>>
    /\ clone_impl = "old"
    /\ last = [op |-> "init", address |-> 0]
    /\ fiber = NoFiber
    /\ vm = NoVm
    /\ \E num_args \in 0..MaxArgs, observed \in SUBSET SymbolTexts, score \in Scores :
          compiler = [stage |-> "Start", num_args |-> num_args, observed |-> observed,
                      score |-> score, pool |-> NoPool, returned |-> <<>>]

\* InputPool::new(num_args, &symbols_in_heap)
NewInputPool ==
    /\ compiler.stage = "Start"
    /\ \E symbols_in_heap \in Orders(compiler.observed) :
          compiler' = [compiler EXCEPT
                          !.stage = "Pool",
                          !.pool = InputPool_new(compiler.num_args, symbols_in_heap)]
    /\ UNCHANGED machine

\* the next input of the order that the pool does not hold
NextInput(pool) ==
    InputsInOrder(pool.num_args, pool.symbols)[Len(pool.input_scores) + 1]

\* pool.add(input, score), for an input that ran; the inputs come in one order,
\* and but for the input of no arguments one input is always left out
AddInput ==
    /\ compiler.stage = "Pool"
    /\ Len(compiler.pool.input_scores) < MaxPool
    /\ \/ Len(compiler.pool.input_scores) + 1
              < Len(InputsInOrder(compiler.pool.num_args, compiler.pool.symbols))
       \/ (compiler.pool.num_args = 0 /\ compiler.pool.input_scores = <<>>)
    /\ compiler' = [compiler EXCEPT
                       !.pool = InputPool_add(@, NextInput(compiler.pool), compiler.score)]
    /\ UNCHANGED machine

\* generate_new_input is called
GenerateNewInput ==
    /\ compiler.stage = "Pool"
    /\ compiler' = [compiler EXCEPT !.stage = "Generating", !.returned = <<>>]
    /\ UNCHANGED machine

\* one turn of the loop: generate_input gave an input that the pool holds
GeneratedKnownInput ==
    /\ compiler.stage = "Generating"
    /\ \E fresh \in BOOLEAN :
          generate_input(compiler.pool, fresh) \cap PoolInputs(compiler.pool) # {}
    /\ compiler' = compiler
    /\ UNCHANGED machine

\* one turn of the loop: generate_input gave an input that the pool does not
\* hold, which is returned
ReturnNewInput ==
    /\ compiler.stage = "Generating"
    /\ \E fresh \in BOOLEAN :
          \E input \in generate_input(compiler.pool, fresh) \ PoolInputs(compiler.pool) :
              compiler' = [compiler EXCEPT !.stage = "Returned", !.returned = input]
    /\ UNCHANGED machine

\* one turn of the loop: choose_weighted found no positive score, unwrap panics
ChooseWeightedFails ==
    /\ compiler.stage = "Generating"
    /\ generate_input(compiler.pool, FALSE) = {}
    /\ compiler' = [compiler EXCEPT !.stage = "Panicked"]
    /\ UNCHANGED machine

\* the caller has the input
TakeInput ==
    /\ compiler.stage = "Returned"
    /\ compiler' = [compiler EXCEPT !.stage = "Pool"]
    /\ UNCHANGED machine

PoolNext ==
    \/ NewInputPool
    \/ AddInput
    \/ GenerateNewInput
    \/ GeneratedKnownInput
    \/ ReturnNewInput
    \/ ChooseWeightedFails
    \/ TakeInput

SpecPool == PoolInit /\ [][PoolNext]_vars

\* The generator is random: an input that generate_input gives with positive
\* probability is given in some turn of the loop, and so is the failure of
\* choose_weighted.
SpecPoolFair ==
    /\ SpecPool
    /\ SF_vars(ReturnNewInput)
    /\ SF_vars(ChooseWeightedFails)

PoolSymbols == SeqRange(compiler.pool.symbols)

\* C25 as stated: the symbols of a pool are the observed symbols and Nothing.
C25_NothingAlwaysAmongSymbols ==
    compiler.stage # "Start" => PoolSymbols = compiler.observed \cup {"Nothing"}

\* C25: the symbols of a pool are the observed symbols, each once, when there
\* are any, and Nothing alone when none was observed; they are never empty.
C25_NothingOnlyWhenNoneObserved ==
    compiler.stage # "Start" =>
        /\ PoolSymbols = (IF compiler.observed = {} THEN {"Nothing"} ELSE compiler.observed)
        /\ Len(compiler.pool.symbols) = Cardinality(PoolSymbols)
        /\ compiler.pool.symbols # <<>>
        /\ compiler.pool.num_args = compiler.num_args

\* a pool made with True observed: Nothing is not among its symbols
C25_PoolWithoutNothing ==
    /\ compiler.stage = "Pool"
    /\ compiler.observed = {"True"}
    /\ compiler.pool.symbols = <<"True">>

\* C30 as stated: a call of generate_new_input returns, whatever the pool holds
\* and whatever the number of arguments is.
C30_GenerateNewInputReturns ==
    (compiler.stage = "Generating") ~> (compiler.stage = "Returned")

\* the input that generate_new_input returns has the pool's number of
\* arguments and is none of the pool's inputs
ReturnedInputIsNew ==
    compiler.stage = "Returned" =>
        /\ compiler.returned \notin PoolInputs(compiler.pool)
        /\ Len(compiler.returned) = compiler.pool.num_args

\* the call returns when the pool lacks an input that generate_input may give
\* and choose_weighted cannot fail
GenerateNewInputReturnsWhenItCan ==
    (/\ compiler.stage = "Generating"
     /\ Generated(compiler.pool) \ PoolInputs(compiler.pool) # {}
     /\ generate_input(compiler.pool, FALSE) # {})
        ~> (compiler.stage = "Returned")

\* the loop turns with nothing to return: the function has no parameter and
\* the pool holds the input of no arguments
C30_NoNewInputLeft ==
    /\ compiler.stage = "Generating"
    /\ compiler.pool.num_args = 0
    /\ PoolInputs(compiler.pool) = {<<>>}
    /\ \A fresh \in BOOLEAN :
          generate_input(compiler.pool, fresh) \ PoolInputs(compiler.pool) = {}

\* the call ended with the panic of unwrap: twenty inputs, all of score 0
GenerateNewInputPanicked ==
    /\ compiler.stage = "Panicked"
    /\ Len(compiler.pool.input_scores) >= MinInputsToMutate

\* --------------------------------------------------------- the full tracer

MaxEvents == 2
MaxTraced == 2

\* FullTracer::new: no events, an empty heap, no transferred objects. The
\* tracer's heap is `other`, transferred_objects[fiber] of the one fiber that
\* runs is `address_map`, the events are kept with the scheduler the tracer is
\* handed to.
TracerNew == [fibers |-> <<>>, channels |-> <<>>, events |-> <<>>]

RECURSIVE ValueOf(_, _)
\* the value an address stands for: the object with the values of its children
ValueOf(h, address) ==
    LET object == get(h, address)
    IN [kind |-> object.kind, num |-> object.num, text |-> object.text,
        body |-> object.body,
        items |-> [i \in 1..Len(object.children) |-> ValueOf(h, object.children[i])]]

\* FullTracer::import_from_fiber_heap: the value is cloned into the tracer's
\* heap with the mapping of the fiber, which the clone extends.
import_from_fiber_heap(tracer_heap, transferred_objects, fiber_heap, value) ==
    clone_single_to_other_heap_with_existing_mapping(
        fiber_heap, tracer_heap, value, transferred_objects)

TracerInit ==
    /\ heap = HeapDefault
    /\ data_stack = <<>>
    /\ other = HeapDefault
    /\ address_map = EmptyMap
    /\ clone_roots = <<>>
    /\ clone_impl = "old"
    /\ last = [op |-> "init", address |-> 0]
    /\ fiber = NoFiber
    /\ vm = TracerNew
    /\ compiler = NoCompiler

\* FullInFiberTracer::value_evaluated for a stack entry: the value is imported
\* and the event pushed. The event remembers, besides the imported value, the
\* value the fiber held (held) and the value the tracer's heap showed for the
\* event when it was pushed (shown).
ValueEvaluated(i) ==
    /\ ~heap.aborted
    /\ i \in 1..Len(data_stack)
    /\ Len(vm.events) < MaxEvents
    /\ LET value == data_stack[i]
           r == import_from_fiber_heap(other, address_map, heap, value)
       IN /\ other' = r.other
          /\ address_map' = r.address_map
          /\ vm' = [vm EXCEPT !.events = Append(@,
                        [event |-> "ValueEvaluated", source |-> value,
                         value |-> r.address,
                         held |-> ValueOf(heap, value),
                         shown |-> ValueOf(r.other, r.address)])]
          /\ last' = [op |-> "value_evaluated", address |-> value]
    /\ UNCHANGED <<heap, data_stack, clone_roots, clone_impl, fiber, compiler>>

TracerNext ==
    \/ \E data \in HeapLeaves : Len(data_stack) < MaxTraced /\ CreateLeaf(data)
    \/ CreateComposite("List", 1)
    \/ \E i \in 1..MaxStack : Drop(i)
    \/ \E i \in 1..MaxStack : ValueEvaluated(i)

\* A fiber that creates Ints, wraps the top of its stack in a list, drops values
\* and has them traced.
SpecTracer == TracerInit /\ [][TracerNext]_vars

\* C26 as stated: every value recorded in an event of the full tracer is a copy
\* in the tracer's heap that equals the value the fiber held when the event was
\* emitted, whatever the fiber dropped and allocated before and after.
C26_EventsShowWhatTheFiberHeld ==
    \A i \in 1..Len(vm.events) :
        /\ IsSome(other, vm.events[i].value)
        /\ ValueOf(other, vm.events[i].value) = vm.events[i].held

\* What an event shows never changes after it was pushed: the fiber may drop the
\* value and allocate others, the objects of the tracer's heap keep their data.
EventsKeepWhatTheyShow ==
    \A i \in 1..Len(vm.events) :
        /\ IsSome(other, vm.events[i].value)
        /\ ValueOf(other, vm.events[i].value) = vm.events[i].shown

\* An object traced several times while it is alive appears once in the
\* tracer's heap: events of one address with no drop to zero in between share
\* their value, and the tracer's heap has one object per transferred address.
TracedObjectsAppearOnce ==
    /\ Cardinality(Addresses(other)) = Cardinality(DOMAIN address_map)
    /\ \A i, j \in 1..Len(vm.events) :
           vm.events[i].source = vm.events[j].source =>
               vm.events[i].value = vm.events[j].value

\* An object was traced and freed, and the object allocated at its address was
\* traced then: the second event shows the value of the first.
C26_TracedAtAReusedAddress ==
    \E i, j \in 1..Len(vm.events) :
        /\ i < j
        /\ vm.events[i].source = vm.events[j].source
        /\ vm.events[i].held # vm.events[j].held
        /\ vm.events[j].shown = vm.events[i].held

\* An event whose value the fiber dropped afterwards, its address taken by
\* another object, still shows the value it showed.
TracedValueDroppedAndReplaced ==
    \E i \in 1..Len(vm.events) :
        /\ vm.events[i].held = vm.events[i].shown
        /\ IsSome(heap, vm.events[i].source)
        /\ ValueOf(heap, vm.events[i].source) # vm.events[i].held

\* ------------------------------------------------- run: main and its stdout

\* main holds the send port of the stdout channel only (the environment struct
\* of run): no fiber receives from that channel.
ReceivesFromStdout(c) ==
    /\ c.builtin_function = "ChannelReceive"
    /\ c.datas[1].num = vm.stdout

RunNext ==
    \/ \E f \in 1..MaxFibers : \E c \in Calls(f) :
           ~ReceivesFromStdout(c) /\ RunBuiltin(f, c)
    \/ \E f \in 1..MaxFibers : RunSpawn(f)
    \/ \E f \in 1..MaxFibers : RunReturn(f)
    \/ \E f \in 1..MaxFibers : RunPanic(f)
    \/ HostLoop

\* run: the VM runs main, whose fibers send to the stdout channel, and the loop
\* of the host runs the service whenever the VM has stopped.
SpecRun == VmInit /\ [][RunNext]_vars

\* main is the root fiber; run returns when the loop of the host has ended
MainFinished == vm.fibers[1].status.kind = "Done"

RunReturned == vm.host = "finished"

\* the fiber that sent a value
SenderOf(value) == (value % 100) \div 10

\* what the service has printed of the values of main
OutputOfMain == SelectSeq(vm.output, LAMBDA value : SenderOf(value) = 1)

\* the receives the service has issued and not yet taken the packet of
OutstandingReceives ==
    Len(SelectSeq(vm.channels[vm.stdout].pending_receives,
                  LAMBDA performer : performer.kind = "External"))
    + Len(vm.completed_operations)

\* C27 as stated: when run returns after main finished, every value main sent to
\* the stdout channel has been output by the service, in the order sent; the
\* service has exactly one receive outstanding at any time.
C27_SentToStdoutIsOutput ==
    /\ OutstandingReceives = 1
    /\ RunReturned /\ MainFinished => OutputOfMain = SentOn(1, vm.stdout)

\* The service has exactly one receive outstanding, and what it printed of main's
\* values is a prefix of what main sent.
OutputIsAPrefixOfTheSent ==
    /\ OutstandingReceives = 1
    /\ IsPrefix(OutputOfMain, SentOn(1, vm.stdout))

\* The service of the cli, whose run goes on while receives complete, on its
\* channel of capacity 0 has output everything when run returns.
CliServiceOutputsAll ==
    vm.service = "cli" /\ RunReturned /\ MainFinished =>
        OutputOfMain = SentOn(1, vm.stdout)

\* main sent two values to the stdout channel and finished, run returned, and
\* the second value was received but never output.
C27_SentValueNotOutput ==
    /\ RunReturned
    /\ MainFinished
    /\ Len(SentOn(1, vm.stdout)) = 2
    /\ OutputOfMain = <<SentOn(1, vm.stdout)[1]>>
    /\ PacketValues(vm.completed_operations) = <<SentOn(1, vm.stdout)[2]>>

\* run returned after the service of the cli printed two values of main
CliServiceHasOutputTwo ==
    /\ vm.service = "cli"
    /\ RunReturned
    /\ MainFinished
    /\ Len(OutputOfMain) = 2

\* ------------------------------------------------------ cloned closures

\* the closures of the source heap that were cloned
ClonedClosures == {k \in DOMAIN address_map : get(heap, k).kind = "Closure"}

\* The clone has the captured count, the argument count and the instructions
\* of the original, and its i-th captured value is the clone of the original's.
ClosureCloneMatches(source, target) ==
    LET original == get(heap, source)
        cloned == get(other, target)
    IN /\ cloned.kind = "Closure"
       /\ Len(cloned.children) = Len(original.children)
       /\ cloned.num = original.num
       /\ cloned.body = original.body
       /\ \A i \in 1..Len(original.children) :
              cloned.children[i] = TargetOf(original.children[i])

\* C28 as stated: a closure cloned into another heap by
\* HeapObject::clone_to_heap_with_mapping has the captured count, the argument
\* count and the instruction sequence of the original, and its i-th captured
\* value is the clone of the original's i-th captured value.
C28_ClonedClosureEqualsOriginal ==
    clone_impl = "new" =>
        \A k \in ClonedClosures : ClosureCloneMatches(k, address_map[k])

\* A closure that captures nothing is cloned exactly.
ClosureWithoutCapturedIsClonedExactly ==
    clone_impl = "new" =>
        \A k \in ClonedClosures :
            get(heap, k).children = <<>> => ClosureCloneMatches(k, address_map[k])

\* The header word is copied: the captured count and the argument count of the
\* clone are those of the original, whatever is captured.
ClonedClosureKeepsItsHeader ==
    clone_impl = "new" =>
        \A k \in ClonedClosures :
            /\ get(other, address_map[k]).kind = "Closure"
            /\ Len(get(other, address_map[k]).children) = Len(get(heap, k).children)
            /\ get(other, address_map[k]).num = get(heap, k).num

\* A closure that captures two values was cloned: the first captured value of
\* the clone is the clone of the original's second.
C28_CapturedShiftedByOne ==
    /\ clone_impl = "new"
    /\ \E k \in ClonedClosures :
           /\ Len(get(heap, k).children) = 2
           /\ get(heap, k).children[1] # get(heap, k).children[2]
           /\ get(other, address_map[k]).children[1] = TargetOf(get(heap, k).children[2])
           /\ get(other, address_map[k]).children[1] # TargetOf(get(heap, k).children[1])
           /\ get(other, address_map[k]).body # get(heap, k).body

\* a closure that captures nothing was cloned
ClonedClosureWithoutCaptured ==
    /\ clone_impl = "new"
    /\ \E k \in ClonedClosures : get(heap, k).children = <<>>

\* -------------------------------------------------------------- Heap::clone

\* no closure that captures a value is cloned here
NoUninit == [word |-> 0, body |-> <<>>]

RECURSIVE Heap_clone_objects(_, _, _)
\* for object in &self.objects { object.clone_to_heap_with_mapping(&mut cloned, &mut mapping) }
Heap_clone_objects(self, st, order) ==
    IF order = <<>> THEN st
    ELSE Heap_clone_objects(self,
             clone_to_heap_with_mapping(self, st, Head(order), NoUninit), Tail(order))

\* Heap::clone: an empty heap with the channel refcounts of this one, into which
\* every object of the set `objects` is cloned with one mapping; `order` is the
\* order in which the hash set hands out its objects.
Heap_clone(self, order) ==
    LET st == Heap_clone_objects(self,
                  [other |-> [HeapDefault EXCEPT
                                 !.channel_refcounts = self.channel_refcounts],
                   address_map |-> EmptyMap, object |-> 0, objects |-> <<>>],
                  order)
    IN [cloned |-> st.other, mapping |-> st.address_map]

HeapCloneInit ==
    /\ heap = HeapDefault
    /\ data_stack = <<>>
    /\ other = HeapDefault
    /\ address_map = EmptyMap
    /\ clone_roots = <<>>
    /\ clone_impl = "new"
    /\ last = [op |-> "init", address |-> 0]
    /\ fiber = NoFiber
    /\ vm = NoVm
    /\ compiler = NoCompiler

\* Heap::clone of the fiber's heap; the clone and the mapping it returns replace
\* the ones of the call before.
HeapClone(order) ==
    /\ ~heap.aborted
    /\ Addresses(heap) # {}
    /\ order \in Orders(Addresses(heap))
    /\ LET r == Heap_clone(heap, order)
       IN /\ other' = r.cloned
          /\ address_map' = r.mapping
          /\ clone_roots' = [i \in 1..Len(order) |->
                                <<order[i],
                                  r.mapping[CHOOSE k \in Occupied(heap, r.mapping, order[i]) :
                                                TRUE]>>]
    /\ last' = [op |-> "heap_clone", address |-> 0]
    /\ UNCHANGED <<heap, data_stack, clone_impl, fiber, vm, compiler>>

HeapCloned == last.op = "heap_clone"

HeapCloneNext ==
    \/ \E data \in HeapLeaves : ~HeapCloned /\ CreateLeaf(data)
    \/ \E k \in 0..MaxStack : ~HeapCloned /\ CreateComposite("List", k)
    \/ \E i \in 1..MaxStack : ~HeapCloned /\ Dup(i)
    \/ \E i \in 1..MaxStack : ~HeapCloned /\ Drop(i)
    \/ \E order \in Orders(Addresses(heap)) : ~HeapCloned /\ HeapClone(order)

\* A heap of Ints and lists is built with create, dup and drop and then cloned as
\* a whole.
SpecHeapClone == HeapCloneInit /\ [][HeapCloneNext]_vars

\* C29 as stated: the heap Heap::clone returns holds exactly one clone per
\* object of the original, the mapping leads from each original to its clone,
\* and every clone has the reference count of its original.
C29_OneCloneWithTheSameReferenceCount ==
    HeapCloned =>
        /\ Cardinality(Addresses(other)) = Cardinality(Addresses(heap))
        /\ \A a \in Addresses(heap) :
               /\ KeysOf(a) # {}
               /\ get(other, TargetOf(a)).reference_count = get(heap, a).reference_count

\* The mapping leads from every object to a clone of its value, and the
\* reference count of a clone is the number of objects of the heap it is the
\* clone of plus the number of cells of the mapping's keys that hold one of
\* them.
HeapCloneCountsVisitsAndCells ==
    HeapCloned =>
        /\ \A a \in Addresses(heap) :
               /\ KeysOf(a) # {}
               /\ ValueOf(other, TargetOf(a)) = ValueOf(heap, a)
        /\ Addresses(other) = {address_map[k] : k \in DOMAIN address_map}
        /\ CloneRefcounts

\* the value and the reference count of the clone of each object
CloneSummary(self, r) ==
    [a \in Addresses(self) |->
        LET t == r.mapping[CHOOSE k \in Occupied(self, r.mapping, a) : TRUE]
        IN [value |-> ValueOf(r.cloned, t),
            reference_count |-> get(r.cloned, t).reference_count]]

\* The order in which the objects are visited decides neither the values nor
\* the reference counts of the clones, nor their number.
HeapCloneIsIndependentOfTheOrder ==
    \A o1, o2 \in Orders(Addresses(heap)) :
        LET r1 == Heap_clone(heap, o1)
            r2 == Heap_clone(heap, o2)
        IN /\ CloneSummary(heap, r1) = CloneSummary(heap, r2)
           /\ Cardinality(Addresses(r1.cloned)) = Cardinality(Addresses(r2.cloned))

\* A list and the Int it holds were cloned: the Int is referenced once, its
\* clone twice.
C29_CloneOfAHeldObjectCountsTwo ==
    /\ HeapCloned
    /\ \E l, a \in Addresses(heap) :
           /\ get(heap, l).children = <<a>>
           /\ get(heap, a).reference_count = 1
           /\ get(other, TargetOf(a)).reference_count = 2

\* A heap of three objects with a list among them was cloned, visited in an
\* order that is not the order of their addresses.
ClonedInAnotherOrder ==
    /\ HeapCloned
    /\ Cardinality(Addresses(heap)) = 3
    /\ \E a \in Addresses(heap) : get(heap, a).children # <<>>
    /\ \E i \in 1..2 : clone_roots[i][1] > clone_roots[i + 1][1]

====
